---- MODULE Spec2Model ----
(***************************************************************************)
(* Model of the process supervisor of gui-process-manager                  *)
(* (src/src/serverManager.js, class ServerManager), driven by the IPC      *)
(* handlers of src/src/main.js.                                            *)
(*                                                                         *)
(* The supervisor runs on a single-threaded event loop: every handler runs *)
(* atomically up to its next await on a timer or on an OS event.  One      *)
(* action of the model is one such run-to-completion segment.  The OS side *)
(* (process exits, the result of kill(2), the result of spawn) is chosen   *)
(* nondeterministically.                                                   *)
(***************************************************************************)
EXTENDS Integers, Sequences, FiniteSets, TLC

\* ---------------------------------------------------------------- bounds
MaxId == 2          \* server ids are 1..MaxId
MaxProcs == 2       \* OS processes spawned in one behaviour
MaxTasks == 1       \* commands suspended on an await at the same time
MaxCmds == 3        \* commands the UI issues in one behaviour
MaxRuns == 1        \* runs started in one behaviour of PortSpec
MaxAppends == 610   \* addLog calls in one behaviour of LogSpec

Ids == 1..MaxId
Procs == 1..MaxProcs
Slots == 1..MaxTasks

NoPid == 0          \* pid: null / undefined
NoId == 0           \* dynamicConfig.rootPath: ''
NoPort == 0         \* port: null / undefined
DefaultPort == 3000 \* the port a definition gets when the form leaves it empty

VARIABLES
  servers,      \* this.servers     : id -> server record (partial map)
  processes,    \* this.processes   : id -> child process handle (partial map)
  logs,         \* this.logs        : the ids that have a log buffer (the entries
                \* a step appends are reported in last.logged)
  monitors,     \* this['monitor_'+id] : ids with a sampler interval set
  runtimes,     \* store 'serverRuntimes' : id -> rootPid (partial map)
  manual,       \* store 'manualServers'  : id -> command and port (partial map)
  dynamic,      \* store 'dynamicConfig'  : rootPath (as the id derived from
                \* it, or NoId), runCommand and port
  procs,        \* the OS: state of every process group the supervisor spawned
  tasks,        \* commands suspended on an await
  loops,        \* the port discovery loop (waitAndSyncPortFromPid) of every run
  staleTimers,  \* runs whose 5s kill timer is armed although the stopServer
                \* promise is already resolved (timers of one run are merged)
  samplers,     \* the sampler (startResourceMonitoring) of every run
  buffer,       \* this.logs.get(id) for one id: the entries of its log buffer
  guard,        \* the call of the 'start-server' or 'restart-server' handler
                \* that is in progress
  foreign,      \* the OS: a process the supervisor did not spawn in this session
  selection,    \* a call of selectBestPortCandidate: its arguments and its result
  issued,       \* number of commands the UI has issued
  last          \* what the last step did: result, signals, events, log entries

vars == <<servers, processes, logs, monitors, runtimes, manual, dynamic,
          procs, tasks, loops, staleTimers, samplers, buffer, selection, guard, foreign,
          issued, last>>

\* The state that only the sampler, the log buffer and the handlers of the
\* main process read and write.
aside == <<samplers, buffer, selection, guard, foreign>>

\* ---------------------------------------------------------------- helpers
Without(f, S) == [x \in (DOMAIN f) \ S |-> f[x]]
Put(f, k, v) == [x \in (DOMAIN f) \cup {k} |-> IF x = k THEN v ELSE f[x]]
Empty == [x \in {} |-> NoPid]

RECURSIVE SeqOfSet(_)
SeqOfSet(S) ==
  IF S = {} THEN <<>>
  ELSE LET m == CHOOSE x \in S : \A y \in S : x <= y
       IN <<m>> \o SeqOfSet(S \ {m})

\* the events <<id, status>> of the ids of S, in the order of the ids
EventsOf(S, status) == [k \in 1..Cardinality(S) |-> <<SeqOfSet(S)[k], status>>]

\* ---------------------------------------------------------------- OS processes
\* sid  : the server id the run was spawned for
\* root : "unborn" | "run" | "dead"   the process the supervisor spawned
\* child: a further live member of the process group exists
\* command : the command line the run was spawned with
\* code : exit status of the root while its 'close' event is pending: "zero",
\*        "nonzero", "signal" (killed by a signal: Node reports code null) or
\*        "errno" (the spawn failed: Node reports the negative errno)
\* notified: the 'close' event of the handle has been delivered
Unborn == [sid |-> NoId, command |-> "old", root |-> "unborn", child |-> FALSE,
           code |-> "zero", notified |-> FALSE]

GroupAlive(p) == procs[p].root = "run" \/ procs[p].child
FreeProcs == {p \in Procs : procs[p].root = "unborn"}
NextProc == CHOOSE p \in FreeProcs : \A q \in FreeProcs : p <= q
LiveProcsOf(id) == {p \in Procs : procs[p].sid = id /\ GroupAlive(p)}

\* ---------------------------------------------------------------- records
\* command stands for the name, path and command of the definition: "old" as
\* first configured, "new" as rewritten by an update.
\* port is the configured port, actualPort the port found by port discovery.
NewServer(isManual, command, port) ==
  [status |-> "stopped", pid |-> NoPid, error |-> "none",
   cpu |-> "unset", memory |-> "unset", isManual |-> isManual, command |-> command,
   port |-> port, actualPort |-> NoPort]

normalizePortValue(rawPort) == IF rawPort \in 1..65535 THEN rawPort ELSE NoPort

\* The port addManualServer and updateServer store for the input rawPort.
normalizedPort(rawPort) == IF rawPort \in 1000..65535 THEN rawPort ELSE DefaultPort

\* store 'dynamicConfig' without a root path
NoDynamic == [rootPath |-> NoId, runCommand |-> "old", port |-> NoPort]

\* An entry of the store 'manualServers'.
ManualEntry(command, port) == [command |-> command, port |-> port]

\* The state of one call of waitAndSyncPortFromPid:
\* pc      : "off" (not called, or ended), "timer" (its next poll is scheduled),
\*           "await" (a poll is waiting for ps and lsof)
\* elapsed : Date.now() - start as the loop last read it: 0 below the 2s
\*           warm-up, 1 between warm-up and timeout, 2 beyond the 8s timeout
\* expectedPort, sawRoot, sawChild : what the pending poll read before its
\*           awaits: the configured port, and which processes of the run were
\*           alive for lsof to find
\* lastObservedPort, consecutiveSamePort, lastCommittedPort : the locals of
\*           the call of the same names (the count is kept up to MaxStreak,
\*           the largest value the loop compares it with)
\* only, seenInARow : history of the loop, kept for the claims and read by no
\*           action: the one port its candidate sets have consisted of so far
\*           (NoPort: every set was empty, Several: not a single port), and
\*           for how many polls in a row the set has been that port (2: it
\*           has been so on two polls in a row at some time)
\* backToBack : history of the loop, read by no action: for how many polls
\*           in a row, up to the last one and with no other poll in
\*           between, the loop has selected lastObservedPort (0: the last
\*           poll selected no port; 2: two polls or more)
Several == -1
NoLoop ==
  [pc |-> "off", elapsed |-> 0, expectedPort |-> NoPort, sawRoot |-> FALSE,
   sawChild |-> FALSE, lastObservedPort |-> NoPort, consecutiveSamePort |-> 0,
   lastCommittedPort |-> NoPort, only |-> NoPort, seenInARow |-> 0,
   backToBack |-> 0]
ArmedLoop == [NoLoop EXCEPT !.pc = "timer"]

\* The sampler of one run (the interval callback of startResourceMonitoring
\* and the locals of the call):
\* errorCount : the local of that name
\* inflight   : the callbacks of the interval that wait for ps-list
\* failedInARow, disabled : history of the sampler, kept for the claims and
\*              read by no action: how many samples have failed since the
\*              last one that completed without failing, and whether the
\*              sampler has stopped itself over its failures
NoSampler == [errorCount |-> 0, inflight |-> 0, failedInARow |-> 0, disabled |-> FALSE]

\* A call of the 'start-server' or 'restart-server' handler of the main
\* process:
\* pc     : "idle" (no call), "verify" (the reconciler waits for ps and lsof),
\*          "dialog" (it waits for the answer to 'Leftover Server Process
\*          Detected'), "terminate" (it waits for the process to go),
\*          "resolve" (the resolver looks for the holder of the next port),
\*          "portDialog" (it waits for the answer to 'Port In Use'),
\*          "portWait" (it waits for the port to become free)
\* pid    : rootPid of the runtime record the reconciler read
\* ports  : the ports of the target the resolver has still to check
\* holder : the pid findProcessUsingPort returned
\* report : what ps and lsof told the reconciler of pid
\* runtimes : the 'serverRuntimes' map the reconciler read from the store
\*          before it waited, which it writes back less the record of id
NoReport == [startTime |-> {}, cwd |-> "unknown"]
NoGuard ==
  [pc |-> "idle", op |-> "start", id |-> NoId, pid |-> NoPid, ports |-> <<>>,
   holder |-> NoPid, report |-> NoReport, runtimes |-> Empty]

\* A process the supervisor did not spawn in this session, with the pid
\* ForeignPid: whether it is alive, its start time less the startedAt of a
\* runtime record that names its pid (in ms), its working directory
\* ("under": it starts with the path of the record, or "outside"), and
\* whether it listens on the port of the server.
NoForeign == [alive |-> FALSE, startTime |-> 0, cwd |-> "under", listens |-> FALSE]

\* The log buffer of one server: log, the entries in the array (an entry is
\* the number of the push that appended it); pushed, the number of entries
\* pushed so far (kept for the claims, read by no action but to number the
\* next entry).
NoBuffer == [log |-> <<>>, pushed |-> 0]

\* null, where a candidate is expected
NoCandidate == [port |-> NoPort, pid |-> NoPid, isRoot |-> FALSE,
                command |-> "none", commandLine |-> "none"]

\* A call of selectBestPortCandidate and the calls that follow it with the
\* same candidates in another order:
\* pc    : "off" (no call is followed), "input" (the arguments are there),
\*         "selected" (the function has returned)
\* best  : what the last call returned
\* first : the port of what the first call returned
NoSelection ==
  [pc |-> "off", candidates |-> <<>>, expectedPort |-> NoPort, isNestContext |-> FALSE,
   best |-> NoCandidate, first |-> NoPort]

\* addLog(id, ...) n times: appends only if the buffer exists
addLog(id, n) == IF id \in logs THEN {<<id, n>>} ELSE {}

Idle == [op |-> "idle", id |-> NoId, pc |-> "none", stops |-> {}, isManual |-> FALSE]
Task(op, id, pc, stops, isManual) ==
  [op |-> op, id |-> id, pc |-> pc, stops |-> stops, isManual |-> isManual]
IdleSlots == {t \in Slots : tasks[t].op = "idle"}
FreeSlot == CHOOSE t \in IdleSlots : \A u \in IdleSlots : t <= u

NoSignals == {}
NoEvents == <<>>
NoLogs == {}
\* ret: the step returns a command result to its caller; ok: its success field;
\* sigs: the kill calls made; events: the server-status-changed events emitted;
\* logged: <<id, n>> for n entries appended to the buffer of id;
\* proc: the run the step spawned, stopped or was notified of
\* wrote: the fields of the server record a poll of port discovery assigned;
\* found: {"ignored"} if lsof reported to that poll a port that its filter
\* dropped
\* env: the variables startServer added to the environment of the process it
\* spawned
Result(op, id, ret, ok, sigs, events, logged, proc) ==
  [op |-> op, id |-> id, ret |-> ret, ok |-> ok, sigs |-> sigs, events |-> events,
   logged |-> logged, proc |-> proc, wrote |-> {}, found |-> {}, env |-> {}]

\* The result of a step that returns nothing and has no visible effect.
Silent == Result("none", NoId, FALSE, TRUE, NoSignals, NoEvents, NoLogs, NoPid)

\* A step of the UI; every other step leaves the count alone.
Command == issued < MaxCmds /\ issued' = issued + 1
Internal == UNCHANGED issued

\* loadServers(configs) followed by loadManualServers(), on the manual
\* servers m of the store
LoadedServers(configs, runCommand, port, m) ==
  [i \in configs \cup DOMAIN m |->
     IF i \in configs THEN NewServer(FALSE, runCommand, normalizePortValue(port))
     ELSE NewServer(TRUE, m[i].command, normalizePortValue(m[i].port))]

\* The state after construction and initializeServers(): the definitions of
\* the store are loaded, nothing runs.
Init ==
  /\ \E S \in SUBSET Ids : manual = [i \in S |-> ManualEntry("old", DefaultPort)]
  /\ dynamic = NoDynamic
  /\ servers = LoadedServers({}, dynamic.runCommand, dynamic.port, manual)
  /\ loops = [p \in Procs |-> NoLoop]
  /\ processes = Empty
  /\ logs = DOMAIN manual
  /\ monitors = {}
  /\ runtimes = Empty
  /\ procs = [p \in Procs |-> Unborn]
  /\ tasks = [t \in Slots |-> Idle]
  /\ staleTimers = {}
  /\ samplers = [p \in Procs |-> NoSampler]
  /\ buffer = NoBuffer
  /\ selection = NoSelection
  /\ guard = NoGuard
  /\ foreign = NoForeign
  /\ issued = 0
  /\ last = Silent

\* ---------------------------------------------------------------- signals
\* process.kill(-pid, sig): the outcomes the OS can produce for the group of p.
\* "EPERM" stands for every error other than ESRCH.
KillOutcomes(p) == IF GroupAlive(p) THEN {"ok", "EPERM"} ELSE {"ESRCH"}

\* A delivered SIGTERM: every live member of the group may terminate or handle
\* the signal and live on.
AfterSIGTERM(p) ==
  { [procs[p] EXCEPT !.root = r, !.child = c,
                     !.code = IF r # procs[p].root THEN "signal" ELSE @] :
      r \in (IF procs[p].root = "run" THEN {"run", "dead"} ELSE {procs[p].root}),
      c \in (IF procs[p].child THEN {TRUE, FALSE} ELSE {FALSE}) }

\* A delivered SIGKILL: no member of the group survives.
AfterSIGKILL(p) ==
  [procs[p] EXCEPT !.root = IF @ = "run" THEN "dead" ELSE @,
                   !.child = FALSE,
                   !.code = IF procs[p].root = "run" THEN "signal" ELSE @]

\* ---------------------------------------------------------------- startServer
\* A guard that looks at the definition only.
StartRejectedUnknownOnly(id) == id \notin DOMAIN servers

\* The guard of startServer: unknown id, or a process already tracked.
StartRejected(id) == id \notin DOMAIN servers \/ id \in DOMAIN processes

\* The outcomes of spawn(): "ok"; "throw", an exception raised synchronously
\* inside the try block before the handle is tracked; "asyncError", the OS
\* refuses the process (ENOENT/EACCES: a missing cwd, no /bin/bash) and Node
\* reports it through the handle's 'error' event on the next tick and a
\* 'close' event with a negative code later.
SpawnOutcomes == {"ok", "throw", "asyncError"}

\* childEnv of startServer, less process.env: PORT if the record has a port.
childEnv(port) == IF port # NoPort THEN {"PORT"} ELSE {}

\* What startServer returns once spawn() has not thrown.
StartReturnsSuccess(oc) == oc \in {"ok", "asyncError"}

\* startServer(id) with a given spawn outcome; ch: the command forks a further
\* process into its group.  op names the caller in the result.
StartServer(op, id, oc, ch) ==
  IF StartRejected(id) THEN
    /\ last' = Result(op, id, TRUE, FALSE, NoSignals, NoEvents, NoLogs, NoPid)
    /\ UNCHANGED <<loops, servers, processes, logs, monitors, runtimes, procs>>
  ELSE IF oc = "throw" THEN
    /\ servers' = [servers EXCEPT ![id].status = "error", ![id].error = "spawn"]
    /\ last' = Result(op, id, TRUE, FALSE, NoSignals, <<<<id, "error">>>>, NoLogs, NoPid)
    /\ UNCHANGED <<loops, processes, logs, monitors, runtimes, procs>>
  ELSE IF oc = "ok" THEN
    /\ FreeProcs # {}
    /\ procs' = [procs EXCEPT ![NextProc] =
                   [sid |-> id, command |-> servers[id].command, root |-> "run",
                    child |-> ch, code |-> "zero", notified |-> FALSE]]
    /\ processes' = Put(processes, id, NextProc)
    /\ servers' = [servers EXCEPT ![id].status = "running", ![id].pid = NextProc,
                                  ![id].error = "none",
                                  ![id].cpu = "zero", ![id].memory = "zero"]
    /\ runtimes' = Put(runtimes, id, NextProc)
    /\ monitors' = monitors \cup {id}
    /\ loops' = [loops EXCEPT ![NextProc] = ArmedLoop]
    /\ last' = [Result(op, id, TRUE, StartReturnsSuccess(oc), NoSignals,
                       <<<<id, "running">>, <<id, "running">>>>, addLog(id, 1), NextProc)
                  EXCEPT !.env = childEnv(servers[id].port)]
    /\ UNCHANGED logs
  ELSE
    \* asyncError: the handle is tracked, the status set to running and the
    \* runtime record persisted; the 'error' handler of the handle then
    \* untracks it, sets the status to error and clears the record, and
    \* startServer resumes from its await and returns.
    /\ FreeProcs # {}
    /\ ~ch
    /\ procs' = [procs EXCEPT ![NextProc] =
                   [sid |-> id, command |-> servers[id].command, root |-> "dead",
                    child |-> FALSE, code |-> "errno", notified |-> FALSE]]
    /\ servers' = [servers EXCEPT ![id].status = "error", ![id].pid = NoPid,
                                  ![id].error = "spawn",
                                  ![id].cpu = "zero", ![id].memory = "zero"]
    /\ runtimes' = Without(runtimes, {id})
    /\ monitors' = monitors \cup {id}
    /\ loops' = [loops EXCEPT ![NextProc] = ArmedLoop]
    /\ last' = [Result(op, id, TRUE, StartReturnsSuccess(oc), NoSignals,
                       <<<<id, "running">>, <<id, "running">>, <<id, "error">>>>,
                       addLog(id, 2), NextProc)
                  EXCEPT !.env = childEnv(servers[id].port)]
    /\ UNCHANGED <<processes, logs>>

\* IPC 'start-server' reaching serverManager.startServer
Start(id) ==
  /\ Command
  /\ \E oc \in SpawnOutcomes, ch \in BOOLEAN : StartServer("start", id, oc, ch)
  /\ UNCHANGED <<manual, dynamic, tasks, staleTimers>>
  /\ UNCHANGED aside

\* ---------------------------------------------------------------- the OS
\* The root process of a run terminates by itself.
ProcExit(p) ==
  /\ procs[p].root = "run"
  /\ \E c \in {"zero", "nonzero"} :
       procs' = [procs EXCEPT ![p].root = "dead", ![p].code = c]
  /\ last' = Silent
  /\ Internal
  /\ UNCHANGED <<loops, servers, processes, logs, monitors, runtimes, manual, dynamic,
                 tasks, staleTimers>>
  /\ UNCHANGED aside

\* A further member of the group terminates.
ChildExit(p) ==
  /\ procs[p].child
  /\ procs' = [procs EXCEPT ![p].child = FALSE]
  /\ last' = Silent
  /\ Internal
  /\ UNCHANGED <<loops, servers, processes, logs, monitors, runtimes, manual, dynamic,
                 tasks, staleTimers>>
  /\ UNCHANGED aside

\* A handler that reports every exit as a clean stop.
CloseStatusAlwaysStopped(code) == "stopped"

\* serverProcess.on('close'): the handler registered by startServer for the
\* run p of server procs[p].sid.
CloseStatus(code) == IF code = "zero" THEN "stopped" ELSE "error"
CloseError(code) == IF code = "zero" THEN "none" ELSE "exit"
CloseUntracks(id, p) == {id}

Close(p) ==
  /\ procs[p].root = "dead"
  /\ ~procs[p].notified
  /\ procs' = [procs EXCEPT ![p].notified = TRUE, ![p].code = "zero"]
  /\ servers' = IF procs[p].sid \in DOMAIN servers
                THEN [servers EXCEPT ![procs[p].sid] =
                        [@ EXCEPT !.status = CloseStatus(procs[p].code),
                                  !.pid = NoPid,
                                  !.cpu = "unset", !.memory = "unset",
                                  !.error = CloseError(procs[p].code)]]
                ELSE servers
  /\ processes' = Without(processes, CloseUntracks(procs[p].sid, p))
  /\ runtimes' = Without(runtimes, {procs[p].sid})
  /\ monitors' = monitors \ {procs[p].sid}
  /\ last' = Result("close", procs[p].sid, FALSE, procs[p].code = "zero", NoSignals,
                    IF procs[p].sid \in DOMAIN servers
                    THEN <<<<procs[p].sid, CloseStatus(procs[p].code)>>>> ELSE NoEvents,
                    IF procs[p].code # "zero" THEN addLog(procs[p].sid, 1) ELSE NoLogs,
                    p)
  /\ Internal
  /\ UNCHANGED <<loops, logs, manual, dynamic, tasks, staleTimers>>
  /\ UNCHANGED aside

\* ---------------------------------------------------------------- stopServer
\* The guard of stopServer: no process tracked for id.
StopRejected(id) == id \notin DOMAIN processes

\* What the first kill (SIGTERM to the group) of stopServer can lead to:
\* the outcome of the call and the state of the group after it.
SigtermResults(p) ==
  {[oc |-> o, rec |-> procs[p]] : o \in KillOutcomes(p) \ {"ok"}}
    \cup {[oc |-> "ok", rec |-> r] : r \in AfterSIGTERM(p)}

\* stopServer rethrows every error of the first kill except ESRCH; the outer
\* catch then returns a failure.
StopThrows(oc) == oc \notin {"ok", "ESRCH"}

\* The status stopServer sets before it signals.
StopStatus == "stopping"

\* The synchronous part of stopServer for every id of S (all tracked), with
\* the chosen results f[id] of the first kill.
StopChoices(S) ==
  {f \in [S -> UNION {SigtermResults(processes[i]) : i \in S}] :
     \A i \in S : f[i] \in SigtermResults(processes[i])}
StopSyncServers(S) ==
  [i \in DOMAIN servers |->
     IF i \in S THEN [servers[i] EXCEPT !.status = StopStatus] ELSE servers[i]]
StopSyncProcs(S, f) ==
  [p \in Procs |->
     IF \E i \in S : processes[i] = p THEN f[CHOOSE i \in S : processes[i] = p].rec
     ELSE procs[p]]
StopSyncWaits(S, f) == {processes[i] : i \in {j \in S : ~StopThrows(f[j].oc)}}
StopSyncEvents(S) == EventsOf(S \cap DOMAIN servers, StopStatus)
StopSyncSignals(S) == {<<"SIGTERM", processes[i]>> : i \in S}
StopSyncLogged(S, f) ==
  {<<i, IF StopThrows(f[i].oc) THEN 2 ELSE 1>> : i \in S \cap logs}

\* IPC 'stop-server': stopServer(id) up to its await, or to its early return.
Stop(id) ==
  /\ Command
  /\ IF StopRejected(id) THEN
       /\ last' = Result("stop", id, TRUE, FALSE, NoSignals, NoEvents, NoLogs, NoPid)
       /\ UNCHANGED <<loops, servers, processes, logs, monitors, runtimes, manual, dynamic,
                      procs, tasks, staleTimers>>
     ELSE
       \E f \in StopChoices({id}) :
         /\ servers' = StopSyncServers({id})
         /\ procs' = StopSyncProcs({id}, f)
         /\ IF StopThrows(f[id].oc)
            THEN /\ tasks' = tasks
                 /\ last' = Result("stop", id, TRUE, FALSE, StopSyncSignals({id}),
                                   StopSyncEvents({id}), StopSyncLogged({id}, f), NoPid)
            ELSE /\ IdleSlots # {}
                 /\ tasks' = [tasks EXCEPT ![FreeSlot] =
                                Task("stop", id, "stop", StopSyncWaits({id}, f), FALSE)]
                 /\ last' = Result("stop", id, FALSE, TRUE, StopSyncSignals({id}),
                                   StopSyncEvents({id}), StopSyncLogged({id}, f), NoPid)
         /\ UNCHANGED <<loops, processes, logs, monitors, runtimes, manual, dynamic,
                        staleTimers>>
  /\ UNCHANGED aside

\* A stopServer promise of task t resolves (its last one lets the task go on):
\* stop and stopAll return their result, the other commands enter their
\* settle delay.
TaskAfterStops(t, ns) ==
  IF ns # {} THEN [tasks[t] EXCEPT !.stops = ns]
  ELSE IF tasks[t].op \in {"stop", "stopAll"} THEN Idle
  ELSE [tasks[t] EXCEPT !.stops = {}, !.pc = "delay"]
ReturnsAfterStops(t, ns) == ns = {} /\ tasks[t].op \in {"stop", "stopAll"}

\* What stopServer returns when its wait is over.
StopWaitResult(id, p) == TRUE

\* The 100ms poll of stopServer(id), which captured run p, finds the id
\* untracked and resolves; the 5s timer of the call stays armed.
StopPoll(t, p) ==
  /\ p \in tasks[t].stops
  /\ procs[p].sid \notin DOMAIN processes
  /\ tasks' = [tasks EXCEPT ![t] = TaskAfterStops(t, tasks[t].stops \ {p})]
  /\ staleTimers' = staleTimers \cup {p}
  /\ last' = Result(tasks[t].op, procs[p].sid,
                    ReturnsAfterStops(t, tasks[t].stops \ {p}),
                    StopWaitResult(procs[p].sid, p),
                    NoSignals, NoEvents, NoLogs, p)
  /\ Internal
  /\ UNCHANGED <<loops, servers, processes, logs, monitors, runtimes, manual, dynamic, procs>>
  /\ UNCHANGED aside

\* The body of the 5s timer of a stopServer(id) call that captured run p:
\* if any process is tracked for id, SIGKILL the group of p.
ForceKills(p) == procs[p].sid \in DOMAIN processes
ForceKill(p, oc) ==
  /\ oc \in KillOutcomes(p)
  /\ procs' = IF ForceKills(p) /\ oc = "ok"
              THEN [procs EXCEPT ![p] = AfterSIGKILL(p)] ELSE procs
ForceKillSignals(p) == IF ForceKills(p) THEN {<<"SIGKILL", p>>} ELSE NoSignals
ForceKillLogged(p, oc) ==
  IF ForceKills(p) /\ oc = "ok" THEN addLog(procs[p].sid, 1) ELSE NoLogs

\* The 5s timer fires while the stopServer promise is still pending.
KillTimer(t, p) ==
  /\ p \in tasks[t].stops
  /\ \E oc \in KillOutcomes(p) :
       /\ ForceKill(p, oc)
       /\ last' = Result(tasks[t].op, procs[p].sid,
                         ReturnsAfterStops(t, tasks[t].stops \ {p}),
                         StopWaitResult(procs[p].sid, p),
                         ForceKillSignals(p), NoEvents, ForceKillLogged(p, oc), p)
  /\ tasks' = [tasks EXCEPT ![t] = TaskAfterStops(t, tasks[t].stops \ {p})]
  /\ Internal
  /\ UNCHANGED <<loops, servers, processes, logs, monitors, runtimes, manual, dynamic,
                 staleTimers>>
  /\ UNCHANGED aside

\* The 5s timer fires after the poll has already resolved the promise.
StaleTimer(p) ==
  /\ p \in staleTimers
  /\ \E oc \in KillOutcomes(p) :
       /\ ForceKill(p, oc)
       /\ last' = Result("timer", procs[p].sid, FALSE, TRUE,
                         ForceKillSignals(p), NoEvents, ForceKillLogged(p, oc), p)
  /\ staleTimers' = staleTimers \ {p}
  /\ Internal
  /\ UNCHANGED <<loops, servers, processes, logs, monitors, runtimes, manual, dynamic, tasks>>
  /\ UNCHANGED aside

\* ---------------------------------------------------------------- restartServer
\* A command that awaits stopServer(id) on a tracked id: the synchronous part
\* of the stop, then the command is suspended, on the stop's promise or, if
\* the stop failed at once, on its own settle delay.
SuspendOnStop(op, id, isManual) ==
  /\ IdleSlots # {}
  /\ \E f \in StopChoices({id}) :
       /\ servers' = StopSyncServers({id})
       /\ procs' = StopSyncProcs({id}, f)
       /\ tasks' = [tasks EXCEPT ![FreeSlot] =
                      Task(op, id, IF StopThrows(f[id].oc) THEN "delay" ELSE "stop",
                           StopSyncWaits({id}, f), isManual)]
       /\ last' = Result(op, id, FALSE, TRUE, StopSyncSignals({id}),
                         StopSyncEvents({id}), StopSyncLogged({id}, f), NoPid)
  /\ UNCHANGED <<loops, processes, logs, monitors, runtimes, manual, dynamic, staleTimers>>

Reject(op, id) ==
  /\ last' = Result(op, id, TRUE, FALSE, NoSignals, NoEvents, NoLogs, NoPid)
  /\ UNCHANGED <<loops, servers, processes, logs, monitors, runtimes, manual, dynamic,
                 procs, tasks, staleTimers>>

\* restartServer(id) up to its first await or to its return
restartServer(id) ==
  IF id \notin DOMAIN servers THEN Reject("restart", id)
  ELSE IF id \in DOMAIN processes THEN SuspendOnStop("restart", id, FALSE)
  ELSE
    /\ \E oc \in SpawnOutcomes, ch \in BOOLEAN : StartServer("restart", id, oc, ch)
    /\ UNCHANGED <<manual, dynamic, tasks, staleTimers>>

\* IPC 'restart-server'
Restart(id) ==
  /\ Command
  /\ restartServer(id)
  /\ UNCHANGED aside

\* restartServer after its 2s settle delay: return this.startServer(id)
RestartResume(t) ==
  /\ tasks[t].op = "restart"
  /\ tasks[t].pc = "delay"
  /\ \E oc \in SpawnOutcomes, ch \in BOOLEAN : StartServer("restart", tasks[t].id, oc, ch)
  /\ tasks' = [tasks EXCEPT ![t] = Idle]
  /\ Internal
  /\ UNCHANGED <<manual, dynamic, staleTimers>>
  /\ UNCHANGED aside

\* ---------------------------------------------------------------- deleteServer
\* deleteServer from clearServerRuntime on; isManual was read from the server
\* record fetched when the command began.
DeleteFinish(id, isManual) ==
  /\ runtimes' = Without(runtimes, {id})
  /\ manual' = IF isManual THEN Without(manual, {id}) ELSE manual
  /\ dynamic' = IF ~isManual /\ dynamic.rootPath = id THEN NoDynamic ELSE dynamic
  /\ servers' = Without(servers, {id})
  /\ logs' = logs \ {id}
  /\ monitors' = monitors \ {id}
  /\ last' = Result("delete", id, TRUE, TRUE, NoSignals, NoEvents, NoLogs, NoPid)

\* IPC 'delete-server'
Delete(id) ==
  /\ Command
  /\ IF id \notin DOMAIN servers THEN Reject("delete", id)
     ELSE IF id \in DOMAIN processes
     THEN SuspendOnStop("delete", id, servers[id].isManual)
     ELSE
       /\ DeleteFinish(id, servers[id].isManual)
       /\ UNCHANGED <<loops, processes, procs, tasks, staleTimers>>
  /\ UNCHANGED aside

\* deleteServer after its 1s settle delay
DeleteResume(t) ==
  /\ tasks[t].op = "delete"
  /\ tasks[t].pc = "delay"
  /\ DeleteFinish(tasks[t].id, tasks[t].isManual)
  /\ tasks' = [tasks EXCEPT ![t] = Idle]
  /\ Internal
  /\ UNCHANGED <<loops, processes, procs, staleTimers>>
  /\ UNCHANGED aside

\* ---------------------------------------------------------------- updateServer
\* updateServer from the store update on: the record captured when the
\* command began is written back with its runtime fields reset.
UpdateApply(id, isManual) ==
  /\ manual' = IF isManual /\ id \in DOMAIN manual
                THEN Put(manual, id, ManualEntry("new", normalizedPort(NoPort)))
                ELSE manual
  \* (the runCommand of a configuration without a root path is never read:
  \* it is kept as it was)
  /\ dynamic' = IF ~isManual /\ dynamic.rootPath # NoId
                 THEN [dynamic EXCEPT !.runCommand = "new",
                                      !.port = normalizedPort(NoPort)]
                 ELSE dynamic
  \* (the spread of the captured record keeps the actualPort it holds)
  /\ servers' = Put(servers, id,
                    [NewServer(isManual, "new", normalizedPort(NoPort)) EXCEPT
                       !.actualPort = IF id \in DOMAIN servers
                                      THEN servers[id].actualPort ELSE NoPort])
  /\ last' = Result("update", id, TRUE, TRUE, NoSignals, NoEvents, NoLogs, NoPid)
  /\ UNCHANGED <<loops, processes, logs, monitors, runtimes, procs, staleTimers>>

\* IPC 'update-server'
Update(id) ==
  /\ Command
  /\ IF id \notin DOMAIN servers THEN Reject("update", id)
     ELSE IF servers[id].status # "running" THEN
       /\ UpdateApply(id, servers[id].isManual)
       /\ UNCHANGED tasks
     ELSE IF id \in DOMAIN processes
     THEN SuspendOnStop("update", id, servers[id].isManual)
     ELSE
       \* stopServer returns 'Server process not found'; the settle delay follows
       /\ IdleSlots # {}
       /\ tasks' = [tasks EXCEPT ![FreeSlot] =
                      Task("update", id, "delay", {}, servers[id].isManual)]
       /\ last' = Result("update", id, FALSE, TRUE, NoSignals, NoEvents, NoLogs, NoPid)
       /\ UNCHANGED <<loops, servers, processes, logs, monitors, runtimes, manual, dynamic,
                      procs, staleTimers>>
  /\ UNCHANGED aside

\* updateServer after its 1s settle delay; it returns success and arms the
\* 500ms timer that starts the server again.
UpdateResume(t) ==
  /\ tasks[t].op = "update"
  /\ tasks[t].pc = "delay"
  /\ UpdateApply(tasks[t].id, tasks[t].isManual)
  /\ tasks' = [tasks EXCEPT ![t].pc = "timer"]
  /\ Internal
  /\ UNCHANGED aside

\* the 500ms timer of updateServer: startServer(id), its result is dropped
UpdateRestart(t) ==
  /\ tasks[t].op = "update"
  /\ tasks[t].pc = "timer"
  /\ \E oc \in SpawnOutcomes, ch \in BOOLEAN :
       StartServer("updateStart", tasks[t].id, oc, ch)
  /\ tasks' = [tasks EXCEPT ![t] = Idle]
  /\ Internal
  /\ UNCHANGED <<manual, dynamic, staleTimers>>
  /\ UNCHANGED aside

\* ---------------------------------------------------------------- stopAll, clearAllServers
\* stopAll: stopServer for every id with a tracked handle.  The ids that are
\* running without a handle take the orphan path (stopOrphanedServerByPid);
\* no reachable state of this model has one, since every step that untracks
\* an id also moves its status away from running.
StopAllIds == DOMAIN processes

StopAllBegin(op) ==
  \E f \in StopChoices(StopAllIds) :
    /\ servers' = StopSyncServers(StopAllIds)
    /\ procs' = StopSyncProcs(StopAllIds, f)
    /\ IF StopSyncWaits(StopAllIds, f) = {} /\ op = "stopAll"
       THEN /\ tasks' = tasks
            /\ last' = Result(op, NoId, TRUE, TRUE, StopSyncSignals(StopAllIds),
                              StopSyncEvents(StopAllIds),
                              StopSyncLogged(StopAllIds, f), NoPid)
       ELSE /\ IdleSlots # {}
            /\ tasks' = [tasks EXCEPT ![FreeSlot] =
                           Task(op, NoId,
                                IF StopSyncWaits(StopAllIds, f) = {}
                                THEN "delay" ELSE "stop",
                                StopSyncWaits(StopAllIds, f), FALSE)]
            /\ last' = Result(op, NoId, FALSE, TRUE, StopSyncSignals(StopAllIds),
                              StopSyncEvents(StopAllIds),
                              StopSyncLogged(StopAllIds, f), NoPid)
    /\ UNCHANGED <<loops, processes, logs, monitors, runtimes, manual, dynamic, staleTimers>>

\* IPC 'stop-all', tray menu
StopAll ==
  /\ Command
  /\ StopAllBegin("stopAll")
  /\ UNCHANGED aside

\* IPC 'clear-all-servers'
ClearAll ==
  /\ Command
  /\ StopAllBegin("clearAll")
  /\ UNCHANGED aside

\* clearAllServers after its 2s settle delay
ClearResume(t) ==
  /\ tasks[t].op = "clearAll"
  /\ tasks[t].pc = "delay"
  /\ manual' = Empty
  /\ dynamic' = NoDynamic
  /\ servers' = Empty
  /\ processes' = Empty
  /\ logs' = {}
  /\ monitors' = {}
  /\ tasks' = [tasks EXCEPT ![t] = Idle]
  /\ last' = Result("clearAll", NoId, TRUE, TRUE, NoSignals, NoEvents, NoLogs, NoPid)
  /\ Internal
  /\ UNCHANGED <<loops, runtimes, procs, staleTimers>>
  /\ UNCHANGED aside

\* ---------------------------------------------------------------- definitions
\* A guard that accepts every id.
AddRejectedNever(id) == FALSE

\* The guard of addManualServer: it throws on an id that already exists.
AddRejected(id) == id \in DOMAIN servers

\* IPC 'add-manual-server'
AddManual(id) ==
  /\ Command
  /\ IF AddRejected(id) THEN Reject("addManual", id)
     ELSE
       /\ manual' = Put(manual, id, ManualEntry("old", normalizedPort(NoPort)))
       /\ servers' = Put(servers, id, NewServer(TRUE, "old", normalizedPort(NoPort)))
       /\ logs' = logs \cup {id}
       /\ last' = Result("addManual", id, TRUE, TRUE, NoSignals, NoEvents, NoLogs, NoPid)
       /\ UNCHANGED <<loops, processes, monitors, runtimes, dynamic, procs, tasks,
                      staleTimers>>
  /\ UNCHANGED aside

\* loadServers(configs): the three maps are cleared and refilled
loadServers(configs, runCommand, port) ==
  /\ servers' = LoadedServers(configs, runCommand, port, manual)
  /\ processes' = Empty
  /\ logs' = configs \cup DOMAIN manual

\* IPC 'save-dynamic-config': stores the configuration and reloads the
\* definitions (initializeServers); d is the folder name of the new rootPath.
SaveDynamicConfig(d) ==
  /\ Command
  /\ dynamic' = [rootPath |-> d, runCommand |-> "old", port |-> NoPort]
  /\ loadServers({d} \ {NoId}, dynamic'.runCommand, dynamic'.port)
  /\ last' = Result("reload", d, TRUE, TRUE, NoSignals, NoEvents, NoLogs, NoPid)
  /\ UNCHANGED <<loops, monitors, runtimes, manual, procs, tasks, staleTimers>>
  /\ UNCHANGED aside

\* ---------------------------------------------------------------- health check
\* The probe of performHealthCheck calls kill(0) on the ChildProcess handle.
\* ChildProcess.kill returns false for a process that is gone and raises
\* nothing with code ESRCH.
ProbeThrowsESRCH(p) == FALSE

\* The statuses the sweep looks at.
HealthExamines(status) == status = "running"

HealthLost(i) == HealthExamines(servers[i].status) /\ i \notin DOMAIN processes
HealthGone(i) == /\ HealthExamines(servers[i].status)
                 /\ i \in DOMAIN processes
                 /\ ProbeThrowsESRCH(processes[i])
HealthIssues == {i \in DOMAIN servers : HealthLost(i) \/ HealthGone(i)}

\* one sweep of performHealthCheck (30s interval)
HealthCheck ==
  /\ servers' = [i \in DOMAIN servers |->
                   IF HealthLost(i)
                   THEN [servers[i] EXCEPT !.status = "error", !.error = "lost"]
                   ELSE IF HealthGone(i)
                   THEN [servers[i] EXCEPT !.status = "error", !.error = "gone",
                                           !.pid = NoPid]
                   ELSE servers[i]]
  /\ processes' = Without(processes, {i \in DOMAIN servers : HealthGone(i)})
  /\ monitors' = monitors \ {i \in DOMAIN servers : HealthGone(i)}
  /\ last' = IF HealthIssues = {} THEN Silent
              ELSE Result("health", NoId, FALSE, TRUE, NoSignals,
                          EventsOf(HealthIssues, "error"), NoLogs, NoPid)
  /\ Internal
  /\ UNCHANGED <<loops, logs, runtimes, manual, dynamic, procs, tasks, staleTimers>>
  /\ UNCHANGED aside

\* ---------------------------------------------------------------- sampler
\* The reading for the tracked handle p: the summed usage if ps-list shows
\* the pid, zero otherwise.
Reading(p) == IF procs[p].root = "run" THEN "value" ELSE "zero"

\* one tick of the 2s interval of startResourceMonitoring
SamplerTick(id) ==
  /\ id \in monitors
  /\ IF id \notin DOMAIN servers \/ id \notin DOMAIN processes
        \/ servers[id].status # "running"
     THEN /\ monitors' = monitors \ {id}
          /\ last' = Silent
          /\ UNCHANGED servers
     ELSE /\ servers' = [servers EXCEPT ![id].cpu = Reading(processes[id]),
                                        ![id].memory = Reading(processes[id])]
          /\ last' = Result("sample", id, FALSE, TRUE, NoSignals,
                            <<<<id, "running">>>>, NoLogs, NoPid)
          /\ UNCHANGED monitors
  /\ Internal
  /\ UNCHANGED <<loops, processes, logs, runtimes, manual, dynamic, procs, tasks, staleTimers>>
  /\ UNCHANGED aside

\* ---------------------------------------------------------------- port discovery
\* The listening sockets lsof can report for a run, in the order of its
\* output.  command is the COMMAND column ("node", a name that contains
\* "node", or another name), commandLine what `ps -o args=` prints, by the
\* patterns it matches ("nest": isProbablyNestCommandLine, "vite":
\* isProbablyNonNestDevServer, "plain": neither).
Listeners ==
  << [port |-> 3000, isRoot |-> TRUE,  command |-> "node",    commandLine |-> "plain"],
     [port |-> 5000, isRoot |-> FALSE, command |-> "node",    commandLine |-> "nest"],
     [port |-> 2000, isRoot |-> FALSE, command |-> "nodemon", commandLine |-> "vite"],
     [port |-> 9229, isRoot |-> TRUE,  command |-> "node",    commandLine |-> "plain"] >>

\* The pid of a process of the group of run p other than its root.
ChildPid(p) == MaxProcs + p

isProbablyNestCommandLine(commandLine) == commandLine = "nest"
isProbablyNonNestDevServer(commandLine) == commandLine = "vite"

debugPorts == {9229, 9230, 9239}
commonServerPorts == {3000, 3001, 4000, 5000, 8000, 8080, 8888, 9000}

\* The score of selectBestPortCandidate for one candidate (lower is better).
Score(c, normalizedExpectedPort, isNestContext) ==
  100
  - (IF normalizedExpectedPort # NoPort /\ c.port = normalizedExpectedPort THEN 100 ELSE 0)
  - (IF c.isRoot THEN 40 ELSE 0)
  - (IF c.command = "node" THEN 25 ELSE 0)
  - (IF c.command \in {"node", "nodemon"} THEN 10 ELSE 0)
  - (IF isProbablyNestCommandLine(c.commandLine) THEN 60 ELSE 0)
  + (IF isProbablyNonNestDevServer(c.commandLine) THEN 30 ELSE 0)
  - (IF c.port >= 3000 /\ c.port <= 9000 /\ c.port \notin debugPorts THEN 30 ELSE 0)
  - (IF c.port \in commonServerPorts THEN 20 ELSE 0)
  + (IF c.port \in debugPorts THEN 50 ELSE 0)
  - (IF isNestContext /\ c.port >= 3000 /\ c.port < 5000 THEN 70 ELSE 0)
  + (IF isNestContext /\ c.port >= 5000 /\ c.port \notin debugPorts THEN 30 ELSE 0)

\* A comparator of the score alone: equal scores keep the order of the list.
SortsBeforeByScore(cs, i, j, e, n) ==
  \/ Score(cs[i], e, n) < Score(cs[j], e, n)
  \/ Score(cs[i], e, n) = Score(cs[j], e, n) /\ i <= j

\* a sorts before b: lower score, then lower port, then earlier in the list
\* (the sort is stable)
SortsBefore(cs, i, j, e, n) ==
  \/ Score(cs[i], e, n) < Score(cs[j], e, n)
  \/ /\ Score(cs[i], e, n) = Score(cs[j], e, n)
     /\ \/ cs[i].port < cs[j].port
        \/ cs[i].port = cs[j].port /\ i <= j

\* selectBestPortCandidate(candidates, expectedPort, isNestContext); null is
\* NoCandidate
selectBestPortCandidate(candidates, expectedPort, isNestContext) ==
  LET e == normalizePortValue(expectedPort)
      I == DOMAIN candidates
  IN IF candidates = <<>> THEN NoCandidate
     ELSE IF e # NoPort /\ \E i \in I : candidates[i].port = e
     THEN candidates[CHOOSE i \in I :
                       /\ candidates[i].port = e
                       /\ \A j \in I : candidates[j].port = e => i <= j]
     ELSE candidates[CHOOSE i \in I :
                       \A j \in I : SortsBefore(candidates, i, j, e, isNestContext)]

\* The ports the loop drops before it selects.
ignoredPorts == {9229, 9230, 9231, 9239}
\* A filter that drops no debugger port.
PortKeptAll(port) == port \in 1..65535
PortKept(port) == port \in 1..65535 /\ port \notin ignoredPorts

\* The largest number of consecutive polls the loop asks for.
MaxStreak == 6

\* What lsof can report to a poll of run p that saw the root, or a further
\* process of the group, alive: a set of positions of Listeners.
Visible(p) ==
  {i \in DOMAIN Listeners :
     /\ loops[p].sawRoot
     /\ Listeners[i].isRoot \/ loops[p].sawChild}

\* The candidates of a poll of run p that was reported the sockets I, after
\* the filter, with pid and command line.
Candidates(p, I) ==
  LET K == {i \in I : PortKept(Listeners[i].port)}
      ks == SeqOfSet(K)
  IN [k \in 1..Cardinality(K) |->
        [port |-> Listeners[ks[k]].port,
         pid |-> IF Listeners[ks[k]].isRoot THEN p ELSE ChildPid(p),
         isRoot |-> Listeners[ks[k]].isRoot,
         command |-> Listeners[ks[k]].command,
         commandLine |-> Listeners[ks[k]].commandLine]]

IsNestContext(cs) == \E k \in DOMAIN cs : isProbablyNestCommandLine(cs[k].commandLine)

\* A gate that one observation passes.
requiredOnce(expectedPort, cs, info) == 1
\* A gate that asks for the longest streak whatever the candidates are.
requiredAlwaysMost(expectedPort, cs, info) == MaxStreak
requiredConsecutive(expectedPort, cs, info) ==
  IF expectedPort # NoPort THEN 2
  ELSE IF Len(cs) > 1
       THEN (IF isProbablyNestCommandLine(info.commandLine) THEN 2 ELSE MaxStreak)
       ELSE 2

\* The poll is put off while Nest warms up: no candidate in 3000..4999 yet
\* and the selected port is 5000 or higher.
WarmupHolds(elapsed, cs, info) ==
  /\ IsNestContext(cs)
  /\ elapsed = 0
  /\ ~\E k \in DOMAIN cs : cs[k].port >= 3000 /\ cs[k].port < 5000
  /\ info.port >= 5000

shouldAcceptImmediately(configuredPort, actualPort) ==
  normalizePortValue(configuredPort) # NoPort /\ actualPort = normalizePortValue(configuredPort)

\* A loop without the freeze.
FreezeNever(lastCommittedPort, configuredPort, actualPort) == FALSE
\* The loop does not let a port of 5000 or higher follow a committed port
\* of 3000..4999.
FreezeHolds(lastCommittedPort, configuredPort, actualPort) ==
  /\ lastCommittedPort >= 3000 /\ lastCommittedPort < 5000
  /\ ~shouldAcceptImmediately(configuredPort, actualPort)
  /\ actualPort # lastCommittedPort
  /\ actualPort >= 5000

\* The loop ends once the selected port is the configured one.
LoopEnds(expectedPort, info) == expectedPort # NoPort /\ info.port = expectedPort

\* A poll of the loop of run p starts: it gives up after the timeout or when
\* the server is gone; otherwise it reads the configured port and asks ps and
\* lsof for the listening sockets of the run.
PollBegin(p) ==
  /\ loops[p].pc = "timer"
  /\ \E e \in loops[p].elapsed..2 :
       IF e = 2 \/ procs[p].sid \notin DOMAIN servers
       THEN /\ loops' = [loops EXCEPT ![p].pc = "off", ![p].elapsed = e]
            /\ last' = Result("pollStop", procs[p].sid, FALSE, TRUE, NoSignals,
                              NoEvents, NoLogs, p)
       ELSE /\ loops' = [loops EXCEPT
                           ![p].pc = "await", ![p].elapsed = e,
                           ![p].expectedPort = normalizePortValue(servers[procs[p].sid].port),
                           ![p].sawRoot = (procs[p].root = "run"),
                           ![p].sawChild = procs[p].child]
            /\ last' = Result("poll", procs[p].sid, FALSE, TRUE, NoSignals,
                              NoEvents, NoLogs, p)
  /\ Internal
  /\ UNCHANGED <<servers, processes, logs, monitors, runtimes, manual, dynamic,
                 procs, tasks, staleTimers>>
  /\ UNCHANGED aside

\* What a poll reads off its candidates cs and the selected one: whether
\* the poll counts (it is not put off by the warm-up), the streak after it,
\* and whether it writes the pid, is held by the freeze, commits, and ends
\* the loop.
PollCounts(e, cs, info) == cs # <<>> /\ ~WarmupHolds(e, cs, info)
PollStreak(p, counted, info) ==
  IF ~counted THEN loops[p].consecutiveSamePort
  ELSE IF loops[p].lastObservedPort = info.port
  THEN (IF loops[p].consecutiveSamePort < MaxStreak
        THEN loops[p].consecutiveSamePort + 1 ELSE MaxStreak)
  ELSE 1
PollFrozen(p, writes, info) ==
  writes /\ FreezeHolds(loops[p].lastCommittedPort, servers[procs[p].sid].port, info.port)
PollCommits(p, writes, frozen, streak, cs, info) ==
  /\ writes /\ ~frozen
  /\ \/ shouldAcceptImmediately(servers[procs[p].sid].port, info.port)
     \/ streak >= requiredConsecutive(loops[p].expectedPort, cs, info)
  /\ servers[procs[p].sid].actualPort # info.port

\* The history of the loop of run p after a poll with the candidates cs.
OnlyAfter(p, cs) ==
  LET ports == {cs[k].port : k \in DOMAIN cs}
  IN IF ports = {} THEN loops[p].only
     ELSE IF Cardinality(ports) = 1 /\ loops[p].only \in ports \cup {NoPort}
     THEN CHOOSE q \in ports : TRUE
     ELSE Several
SeenInARowAfter(p, cs) ==
  IF OnlyAfter(p, cs) = Several THEN 0
  ELSE IF loops[p].seenInARow = 2 THEN 2
  ELSE IF cs # <<>> THEN loops[p].seenInARow + 1
  ELSE 0

\* The rest of the poll, from the answer of lsof on: cs are the candidates
\* left by the filter, info the selected one, e the elapsed time it reads,
\* dropped tells whether the filter dropped a socket.
PollSync(p, cs, info, e, dropped) ==
  \E counted \in {PollCounts(e, cs, info)} :
  \E streak \in {PollStreak(p, counted, info)} :
  \E writes \in {counted /\ procs[p].sid \in DOMAIN servers} :
  \E frozen \in {PollFrozen(p, writes, info)} :
  \E commits \in {PollCommits(p, writes, frozen, streak, cs, info)} :
  \E pidChanged \in {writes /\ servers[procs[p].sid].pid # info.pid} :
     /\ loops' = [loops EXCEPT
                    ![p].pc = IF counted /\ ~frozen /\ LoopEnds(loops[p].expectedPort, info)
                              THEN "off" ELSE "timer",
                    ![p].elapsed = e,
                    ![p].lastObservedPort = IF counted THEN info.port ELSE @,
                    ![p].consecutiveSamePort = streak,
                    ![p].lastCommittedPort = IF commits THEN info.port ELSE @,
                    ![p].only = OnlyAfter(p, cs),
                    ![p].seenInARow = SeenInARowAfter(p, cs),
                    ![p].backToBack =
                       IF ~counted THEN 0
                       ELSE IF loops[p].lastObservedPort = info.port /\ @ > 0
                       THEN 2
                       ELSE 1]
     /\ servers' = IF writes
                   THEN [servers EXCEPT
                           ![procs[p].sid].pid = info.pid,
                           ![procs[p].sid].actualPort = IF commits THEN info.port ELSE @]
                   ELSE servers
     /\ last' = [Result("pollSync", procs[p].sid, FALSE, TRUE, NoSignals,
                        IF (pidChanged /\ ~frozen) \/ commits
                        THEN <<<<procs[p].sid, servers[procs[p].sid].status>>>>
                        ELSE NoEvents,
                        IF commits THEN addLog(procs[p].sid, 1) ELSE NoLogs, p)
                 EXCEPT !.wrote = (IF pidChanged THEN {"pid"} ELSE {})
                                    \cup (IF commits THEN {"actualPort"} ELSE {}),
                        !.found = IF dropped THEN {"ignored"} ELSE {}]

PollEnd(p) ==
  /\ loops[p].pc = "await"
  /\ \E I \in SUBSET Visible(p), e \in loops[p].elapsed..2 :
       \E cs \in {Candidates(p, I)} :
         PollSync(p, cs,
                  selectBestPortCandidate(cs, loops[p].expectedPort, IsNestContext(cs)),
                  e, Len(cs) < Cardinality(I))
  /\ Internal
  /\ UNCHANGED <<processes, logs, monitors, runtimes, manual, dynamic,
                 procs, tasks, staleTimers>>
  /\ UNCHANGED aside

\* ---------------------------------------------------------------- sampler, with ps-list awaited
maxErrors == 5
\* ps-list gives up after 3s and the interval is 2s: no more than two
\* callbacks of one interval wait at the same time.
MaxInflight == 2

\* A cpu or memory column that parseFloat turns into NaN (a missing column
\* included).
NotANumber == -1000000

\* What ps-list can report as cpu and memory of one process.
Usages ==
  { [cpu |-> 60, memory |-> 300], [cpu |-> 0, memory |-> 0],
    [cpu |-> -50, memory |-> -20], [cpu |-> NotANumber, memory |-> NotANumber] }

\* parseFloat(x) || 0
parseFloatOrZero(x) == IF x = NotANumber THEN 0 ELSE x

\* the two reduce calls over the related processes rows
totalCpu(rows) == LET f[k \in 0..Len(rows)] ==
                        IF k = 0 THEN 0 ELSE f[k - 1] + parseFloatOrZero(rows[k].cpu)
                  IN f[Len(rows)]
totalMemory(rows) == LET f[k \in 0..Len(rows)] ==
                           IF k = 0 THEN 0 ELSE f[k - 1] + parseFloatOrZero(rows[k].memory)
                     IN f[Len(rows)]

Min(a, b) == IF a <= b THEN a ELSE b
Max(a, b) == IF a >= b THEN a ELSE b

\* A reading that is the sum as it is.
cpuPercentUnclamped(rows) == totalCpu(rows)

\* Math.max(0, Math.min(totalCpu, 100)), Math.max(0, Math.round(totalMemory))
cpuPercent(rows) == Max(0, Min(totalCpu(rows), 100))
memoryInMB(rows) == Max(0, totalMemory(rows))

\* The field of the record that holds the number n: "zero" for 0, "value" for
\* a cpu share up to 100 or a positive memory size, "over" and "negative"
\* for what lies outside.
CpuField(n) == IF n = 0 THEN "zero" ELSE IF n < 0 THEN "negative"
               ELSE IF n <= 100 THEN "value" ELSE "over"
MemoryField(n) == IF n = 0 THEN "zero" ELSE IF n < 0 THEN "negative" ELSE "value"

\* The run whose interval is this['monitor_' + id]: the one started last.
IntervalRun(id) ==
  CHOOSE p \in Procs : /\ procs[p].sid = id /\ procs[p].root # "unborn"
                       /\ \A q \in Procs : procs[q].sid = id /\ procs[q].root # "unborn"
                                              => q <= p
TicksOf(p) ==
  /\ procs[p].root # "unborn"
  /\ procs[p].sid \in monitors
  /\ IntervalRun(procs[p].sid) = p

\* The guard of the callback: the sampler goes on.
SamplerGoesOn(id) ==
  id \in DOMAIN servers /\ id \in DOMAIN processes /\ servers[id].status = "running"

\* A tick of the interval of run p, up to its await of ps-list.
SampleBegin(p) ==
  /\ TicksOf(p)
  /\ samplers[p].inflight < MaxInflight
  /\ IF SamplerGoesOn(procs[p].sid)
     THEN /\ samplers' = [samplers EXCEPT ![p].inflight = @ + 1]
          /\ UNCHANGED monitors
     ELSE /\ monitors' = monitors \ {procs[p].sid}
          /\ UNCHANGED samplers
  /\ last' = Silent
  /\ Internal
  /\ UNCHANGED <<servers, processes, logs, runtimes, manual, dynamic, procs, tasks,
                 loops, staleTimers, buffer, selection, guard, foreign>>

\* The rows ps-list can return for the pid of run p and its children.
RelatedRows(p) ==
  IF procs[p].root # "run" THEN {<<>>}
  ELSE IF procs[p].child THEN {<<m, c>> : m \in Usages, c \in Usages}
  ELSE {<<m>> : m \in Usages}


\* errorCount after a sample: one more for a failure, 0 for a sample that
\* found the pid, unchanged for one that did not.
errorCountAfter(sampler, failed, found) ==
  IF failed THEN sampler.errorCount + 1
  ELSE IF found THEN 0 ELSE sampler.errorCount

\* The sampler gives up: the catch block has counted maxErrors.
GivesUp(sampler, failed, found) ==
  failed /\ errorCountAfter(sampler, failed, found) >= maxErrors

\* A callback of run p resumes from its await: ps-list has failed or timed
\* out (failed), or has returned rows, with or without the pid of p.
SampleEnd(p, failed, rows) ==
  /\ samplers[p].inflight > 0
  /\ samplers' = [samplers EXCEPT ![p] =
       [errorCount |-> errorCountAfter(@, failed, rows # <<>>),
        inflight |-> @.inflight - 1,
        failedInARow |-> IF failed THEN Min(@.failedInARow + 1, maxErrors) ELSE 0,
        disabled |-> @.disabled \/ GivesUp(@, failed, rows # <<>>)]]
  /\ monitors' = IF GivesUp(samplers[p], failed, rows # <<>>)
                 THEN monitors \ {procs[p].sid} ELSE monitors
  /\ servers' = IF procs[p].sid \notin DOMAIN servers THEN servers
                ELSE IF failed \/ rows = <<>>
                THEN [servers EXCEPT ![procs[p].sid].cpu = "zero",
                                     ![procs[p].sid].memory = "zero"]
                ELSE [servers EXCEPT
                        ![procs[p].sid].cpu = CpuField(cpuPercent(rows)),
                        ![procs[p].sid].memory = MemoryField(memoryInMB(rows))]
  /\ last' = Result(IF GivesUp(samplers[p], failed, rows # <<>>) THEN "sampleStop"
                    ELSE IF failed THEN "sampleFail" ELSE "sample",
                    procs[p].sid, FALSE, ~failed, NoSignals,
                    IF procs[p].sid \in DOMAIN servers
                    THEN <<<<procs[p].sid, servers[procs[p].sid].status>>>> ELSE NoEvents,
                    NoLogs, p)
  /\ Internal
  /\ UNCHANGED <<processes, logs, runtimes, manual, dynamic, procs, tasks,
                 loops, staleTimers, buffer, selection, guard, foreign>>

\* ---------------------------------------------------------------- reconciler and port-conflict resolver
\* The handlers 'start-server' and 'restart-server' of the main process,
\* which run cleanupStaleServerProcessForServer and confirmAndFreePort
\* before they call the supervisor.
ForeignPid == 2 * MaxProcs + 1

\* process.kill(pid, 0) does not fail with ESRCH
isProcessAlive(pid) ==
  IF pid = ForeignPid THEN foreign.alive ELSE pid \in Procs /\ procs[pid].root = "run"

\* What getProcessStartTimeMs and getProcessCwdByPid can tell of pid: the
\* start time less startedAt, or nothing ({}) if ps fails or its output
\* does not parse; the cwd set against the path, or "unknown" if lsof
\* fails.  A process of this session started when its record was written,
\* in the path of its server.
ReportsOf(pid) ==
  IF pid = ForeignPid
  THEN {[startTime |-> st, cwd |-> c] :
          st \in {{foreign.startTime}, {}}, c \in {foreign.cwd, "unknown"}}
  ELSE {[startTime |-> st, cwd |-> c] : st \in {{0}, {}}, c \in {"under", "unknown"}}

\* A check that nothing fails.
NeverFails(report) == FALSE

Abs(n) == IF n < 0 THEN -n ELSE n

\* The tolerance of the start time, in ms.
startTolerance == 2 * 60 * 1000

\* The start times a foreign process can have, less startedAt.
StartTimes == {0, startTolerance, startTolerance + 1, -(startTolerance + 1)}

\* procStart is known and |procStart - startedAt| > 2 minutes
StartTimeFails(report) == \E procStart \in report.startTime : Abs(procStart) > startTolerance
\* the cwd is known and does not start with the path of the record
CwdFails(report) == report.cwd = "outside"

\* The reconciler asks before it terminates: 'start-server' does, while
\* 'restart-server' passes prompt: false.
Prompts(op) == op = "start"

\* No port is written in the commands of the model.
inferPortFromCommand(command) == NoPort

\* The ports the handler hands to confirmAndFreePort for the target it read:
\* the actualPort, then the configured (or inferred) port unless it is the same.
PortsToCheck(target) ==
  LET desiredPort == IF target.port # NoPort THEN target.port
                     ELSE inferPortFromCommand(target.command)
  IN (IF normalizePortValue(target.actualPort) # NoPort
      THEN <<normalizePortValue(target.actualPort)>> ELSE <<>>)
     \o (IF normalizePortValue(desiredPort) # NoPort
            /\ normalizePortValue(target.actualPort) # normalizePortValue(desiredPort)
         THEN <<normalizePortValue(desiredPort)>> ELSE <<>>)

\* The processes lsof can report as listening on a port of the server: the
\* root of a run of this session, the foreign process if it listens.
Holders ==
  {p \in Procs : procs[p].root = "run"}
    \cup (IF foreign.alive /\ foreign.listens THEN {ForeignPid} ELSE {})

\* The port is in use and lsof names no pid for it.
UnknownPid == ForeignPid + 1

\* The OS after a signal to pid (to its group if group) that may end it
\* (must end it if sure): the pairs <<procs, foreign>> that can follow.
Signalled(pid, group, sure) ==
  IF pid = ForeignPid
  THEN {<<procs, [foreign EXCEPT !.alive = a]>> :
          a \in (IF foreign.alive THEN {TRUE, FALSE} ELSE {FALSE})}
  ELSE IF pid \notin Procs THEN {<<procs, foreign>>}
  ELSE IF sure THEN {<<[procs EXCEPT ![pid] = AfterSIGKILL(pid)], foreign>>}
  ELSE {<<[procs EXCEPT ![pid] = r], foreign>> :
          r \in {x \in AfterSIGTERM(pid) : group \/ x.child = procs[pid].child}}

\* The handler returns a failure to the UI.
GuardFails(op, id, sigs, why) ==
  /\ guard' = NoGuard
  /\ last' = [Result(op, id, TRUE, FALSE, sigs, NoEvents, NoLogs, guard.pid)
                EXCEPT !.found = why]

\* The handler goes on and returns nothing yet.
GuardGoes(op, id, sigs, pid, why) ==
  last' = [Result(op, id, FALSE, TRUE, sigs, NoEvents, NoLogs, pid) EXCEPT !.found = why]

\* IPC 'start-server' or 'restart-server': the handler reads its target and
\* the reconciler reads the runtime record and probes its pid.
GuardBegin(op, id) ==
  /\ Command
  /\ guard.pc = "idle"
  /\ id \in DOMAIN servers
  /\ IF id \in DOMAIN runtimes /\ isProcessAlive(runtimes[id])
     THEN /\ guard' = [pc |-> "verify", op |-> op, id |-> id, pid |-> runtimes[id],
                       ports |-> PortsToCheck(servers[id]), holder |-> NoPid,
                       report |-> NoReport, runtimes |-> runtimes]
          /\ UNCHANGED runtimes
     ELSE /\ guard' = [pc |-> "resolve", op |-> op, id |-> id, pid |-> NoPid,
                       ports |-> PortsToCheck(servers[id]), holder |-> NoPid,
                       report |-> NoReport, runtimes |-> Empty]
          /\ runtimes' = Without(runtimes, {id})
  /\ GuardGoes("staleProbe", id, NoSignals, NoPid, {})
  /\ UNCHANGED <<servers, processes, logs, monitors, manual, dynamic, procs, tasks,
                 loops, staleTimers, samplers, buffer, selection, foreign>>

\* The reconciler has the start time and the working directory of the pid:
\* it discards the record if one of them fails, terminates the process if
\* it was told not to ask, and asks otherwise.
GuardVerify(report) ==
  /\ guard.pc = "verify"
  /\ report \in ReportsOf(guard.pid)
  /\ IF StartTimeFails(report) \/ CwdFails(report)
     THEN /\ runtimes' = Without(guard.runtimes, {guard.id})
          /\ guard' = [guard EXCEPT !.pc = "resolve", !.report = report, !.runtimes = Empty]
          /\ GuardGoes("staleDiscard", guard.id, NoSignals, guard.pid, {})
          /\ UNCHANGED <<procs, foreign>>
     ELSE IF Prompts(guard.op)
     THEN /\ guard' = [guard EXCEPT !.pc = "dialog", !.report = report]
          /\ GuardGoes("staleAsk", guard.id, NoSignals, guard.pid, {})
          /\ UNCHANGED <<runtimes, procs, foreign>>
     ELSE /\ guard' = [guard EXCEPT !.pc = "terminate", !.report = report]
          /\ \E after \in Signalled(guard.pid, TRUE, FALSE) :
               procs' = after[1] /\ foreign' = after[2]
          /\ GuardGoes("staleTerminate", guard.id, {<<"SIGTERM", guard.pid>>}, guard.pid, {})
          /\ UNCHANGED runtimes
  /\ Internal
  /\ UNCHANGED <<servers, processes, logs, monitors, manual, dynamic, tasks,
                 loops, staleTimers, samplers, buffer, selection>>

\* The answer to 'Leftover Server Process Detected'.
GuardAnswer(response) ==
  /\ guard.pc = "dialog"
  /\ IF response = "Cancel"
     THEN /\ GuardFails(guard.op, guard.id, NoSignals, {response})
          /\ UNCHANGED <<runtimes, procs, foreign>>
     ELSE IF response = "Terminate"
     THEN /\ guard' = [guard EXCEPT !.pc = "terminate"]
          /\ \E after \in Signalled(guard.pid, TRUE, FALSE) :
               procs' = after[1] /\ foreign' = after[2]
          /\ GuardGoes("staleTerminate", guard.id, {<<"SIGTERM", guard.pid>>}, guard.pid,
                       {response})
          /\ UNCHANGED runtimes
     ELSE /\ guard' = [guard EXCEPT !.pc = "resolve", !.runtimes = Empty]
          /\ runtimes' = Without(guard.runtimes, {guard.id})
          /\ GuardGoes("staleContinue", guard.id, NoSignals, guard.pid, {response})
          /\ UNCHANGED <<procs, foreign>>
  /\ Internal
  /\ UNCHANGED <<servers, processes, logs, monitors, manual, dynamic, tasks,
                 loops, staleTimers, samplers, buffer, selection>>

\* terminateProcessGroupByPid ends: the pid is gone, or the 6s have passed
\* and SIGKILL is sent.  A failure is returned if the pid is still alive; a
\* call that did not ask has deleted the record before.
GuardTerminated ==
  /\ guard.pc = "terminate"
  /\ \E after \in (IF isProcessAlive(guard.pid)
                    THEN Signalled(guard.pid, TRUE, TRUE) ELSE {<<procs, foreign>>}) :
       /\ procs' = after[1]
       /\ foreign' = after[2]
       /\ IF guard.pid = ForeignPid /\ after[2].alive
          THEN /\ GuardFails(guard.op, guard.id, {<<"SIGKILL", guard.pid>>}, {"alive"})
               /\ runtimes' = IF Prompts(guard.op) THEN runtimes
                              ELSE Without(guard.runtimes, {guard.id})
          ELSE /\ guard' = [guard EXCEPT !.pc = "resolve", !.runtimes = Empty]
               /\ runtimes' = Without(guard.runtimes, {guard.id})
               /\ GuardGoes("staleTerminated", guard.id,
                            IF isProcessAlive(guard.pid)
                            THEN {<<"SIGKILL", guard.pid>>} ELSE NoSignals,
                            guard.pid, {})
  /\ Internal
  /\ UNCHANGED <<servers, processes, logs, monitors, manual, dynamic, tasks,
                 loops, staleTimers, samplers, buffer, selection>>

\* confirmAndFreePort for the next port, up to its dialog: the port is free,
\* or held by a process lsof names (holder), or held by one it cannot name.
GuardResolve(holder) ==
  /\ guard.pc = "resolve"
  /\ guard.ports # <<>>
  /\ holder \in Holders \cup {NoPid, UnknownPid}
  /\ IF holder = NoPid
     THEN /\ ForeignPid \notin Holders
          /\ guard' = [guard EXCEPT !.ports = Tail(@)]
          /\ GuardGoes("portFree", guard.id, NoSignals, NoPid, {})
     ELSE IF holder = UnknownPid
     THEN GuardFails(guard.op, guard.id, NoSignals, {"unknown"})
     ELSE /\ guard' = [guard EXCEPT !.pc = "portDialog", !.holder = holder]
          /\ GuardGoes("portConflict", guard.id, NoSignals, holder, {})
  /\ Internal
  /\ UNCHANGED <<servers, processes, logs, monitors, runtimes, manual, dynamic, procs,
                 tasks, loops, staleTimers, samplers, buffer, selection, foreign>>

\* The answer to 'Port In Use': on confirmation SIGTERM goes to the holder.
GuardPortAnswer(confirmed) ==
  /\ guard.pc = "portDialog"
  /\ IF confirmed
     THEN /\ guard' = [guard EXCEPT !.pc = "portWait"]
          /\ \E after \in Signalled(guard.holder, FALSE, FALSE) :
               procs' = after[1] /\ foreign' = after[2]
          /\ GuardGoes("portConfirm", guard.id, {<<"SIGTERM", guard.holder>>},
                       guard.holder, {})
     ELSE /\ GuardFails(guard.op, guard.id, NoSignals, {"declined"})
          /\ UNCHANGED <<procs, foreign>>
  /\ Internal
  /\ UNCHANGED <<servers, processes, logs, monitors, runtimes, manual, dynamic,
                 tasks, loops, staleTimers, samplers, buffer, selection>>

\* A wait that takes a port still held after 6s for a free one.
waitForPortFreeAnyway(outcome) == TRUE

\* waitForPortFree(port, 6000): true if lsof names no listener ("free") or
\* fails ("error"), false if the 6s pass with a listener named ("timeout").
waitForPortFree(outcome) == outcome # "timeout"

\* waitForPortFree ends.
GuardPortWait(outcome) ==
  /\ guard.pc = "portWait"
  /\ outcome = "free" => ForeignPid \notin Holders
  /\ outcome = "timeout" => Holders # {}
  /\ IF waitForPortFree(outcome)
     THEN /\ guard' = [guard EXCEPT !.pc = "resolve", !.ports = Tail(@), !.holder = NoPid]
          /\ GuardGoes("portFreed", guard.id, NoSignals, guard.holder, {outcome})
     ELSE GuardFails(guard.op, guard.id, NoSignals, {outcome})
  /\ Internal
  /\ UNCHANGED <<servers, processes, logs, monitors, runtimes, manual, dynamic, procs,
                 tasks, loops, staleTimers, samplers, buffer, selection, foreign>>

\* Every port is free: the handler calls startServer or restartServer.
GuardAdmit ==
  /\ guard.pc = "resolve"
  /\ guard.ports = <<>>
  /\ guard' = NoGuard
  /\ IF guard.op = "start"
     THEN /\ \E oc \in SpawnOutcomes, ch \in BOOLEAN : StartServer("start", guard.id, oc, ch)
          /\ UNCHANGED <<manual, dynamic, tasks, staleTimers>>
     ELSE restartServer(guard.id)
  /\ Internal
  /\ UNCHANGED <<samplers, buffer, selection, foreign>>

\* The foreign process ends by itself.
ForeignExit ==
  /\ foreign.alive
  /\ foreign' = [foreign EXCEPT !.alive = FALSE]
  /\ last' = Silent
  /\ Internal
  /\ UNCHANGED <<servers, processes, logs, monitors, runtimes, manual, dynamic, procs,
                 tasks, loops, staleTimers, samplers, buffer, selection, guard>>

\* ---------------------------------------------------------------- log buffer
LogCap == 500       \* the length above which addLog trims the array
LogBatch == 100     \* the number of entries one trim removes
MaxMessage == 2000  \* the longest message addLog accepts

\* The messages stdout, stderr and the supervisor hand to addLog, by the
\* length they have once trimmed.
MessageLengths == {0, 1, MaxMessage, MaxMessage + 1}

\* A trim that removes the oldest entry only.
TrimmedByOne(log) == IF Len(log) > LogCap THEN SubSeq(log, 2, Len(log)) ELSE log

\* logs.splice(0, 100) once the array is longer than 500
Trimmed(log) ==
  IF Len(log) > LogCap THEN SubSeq(log, LogBatch + 1, Len(log)) ELSE log

\* addLog refuses an empty message and one longer than 2000 characters
Refused(len) == len = 0 \/ len > MaxMessage

\* addLog(id, level, message) for the id of buffer and a message of length
\* len once trimmed
AppendLog(id, len) ==
  /\ buffer.pushed < MaxAppends
  /\ id \in logs
  /\ buffer' = IF Refused(len) THEN buffer
                ELSE [log |-> Trimmed(Append(buffer.log, buffer.pushed + 1)),
                      pushed |-> buffer.pushed + 1]
  /\ last' = Result("log", id, FALSE, TRUE, NoSignals, NoEvents,
                    IF Refused(len) THEN NoLogs ELSE addLog(id, 1), NoPid)
  /\ Internal
  /\ UNCHANGED <<servers, processes, logs, monitors, runtimes, manual, dynamic,
                 procs, tasks, loops, staleTimers, samplers, guard, foreign, selection>>

\* ---------------------------------------------------------------- specification
Next ==
  \/ \E id \in Ids : Start(id)
  \/ \E id \in Ids : Stop(id)
  \/ \E id \in Ids : Restart(id)
  \/ \E id \in Ids : Delete(id)
  \/ \E id \in Ids : Update(id)
  \/ StopAll
  \/ ClearAll
  \/ \E id \in Ids : AddManual(id)
  \/ \E d \in Ids \cup {NoId} : SaveDynamicConfig(d)
  \/ \E t \in Slots, p \in Procs : StopPoll(t, p)
  \/ \E t \in Slots, p \in Procs : KillTimer(t, p)
  \/ \E p \in Procs : StaleTimer(p)
  \/ \E t \in Slots : RestartResume(t)
  \/ \E t \in Slots : DeleteResume(t)
  \/ \E t \in Slots : UpdateResume(t)
  \/ \E t \in Slots : UpdateRestart(t)
  \/ \E t \in Slots : ClearResume(t)
  \/ \E p \in Procs : ProcExit(p)
  \/ \E p \in Procs : ChildExit(p)
  \/ \E p \in Procs : Close(p)
  \/ HealthCheck
  \/ \E id \in Ids : SamplerTick(id)

Spec == Init /\ [][Next]_vars

\* The timers of the supervisor fire and its suspended commands resume; the
\* OS owes no exit and no 'close' event.
Fairness ==
  /\ WF_vars(HealthCheck)
  /\ \A t \in Slots, p \in Procs : WF_vars(StopPoll(t, p)) /\ WF_vars(KillTimer(t, p))
  /\ \A p \in Procs : WF_vars(StaleTimer(p))
  /\ \A t \in Slots : /\ WF_vars(RestartResume(t)) /\ WF_vars(DeleteResume(t))
                       /\ WF_vars(UpdateResume(t)) /\ WF_vars(UpdateRestart(t))
                       /\ WF_vars(ClearResume(t))

FairSpec == Spec /\ Fairness

\* Spec follows the runs in which lsof never reports a listening socket: the
\* polls of port discovery then change nothing but their own counters and
\* are left out of Next.  PortSpec follows port discovery: one server loaded
\* from the dynamic configuration, with any configured port, is started and
\* stopped while the loop of its run polls.
ConfigPorts == {NoPort, 3000, 5000, 9229}

PortInit ==
  /\ manual = Empty
  /\ \E port \in ConfigPorts : dynamic = [rootPath |-> 1, runCommand |-> "old", port |-> port]
  /\ servers = LoadedServers({1}, dynamic.runCommand, dynamic.port, manual)
  /\ processes = Empty
  /\ logs = {1}
  /\ monitors = {}
  /\ runtimes = Empty
  /\ procs = [p \in Procs |-> Unborn]
  /\ tasks = [t \in Slots |-> Idle]
  /\ loops = [p \in Procs |-> NoLoop]
  /\ staleTimers = {}
  /\ samplers = [p \in Procs |-> NoSampler]
  /\ buffer = NoBuffer
  /\ selection = NoSelection
  /\ guard = NoGuard
  /\ foreign = NoForeign
  /\ issued = 0
  /\ last = Silent

PortNext ==
  \/ \E id \in DOMAIN servers : Cardinality(Procs \ FreeProcs) < MaxRuns /\ Start(id)
  \/ \E id \in DOMAIN processes : Stop(id)
  \/ \E t \in Slots, p \in Procs : StopPoll(t, p)
  \/ \E t \in Slots, p \in Procs : KillTimer(t, p)
  \/ \E p \in Procs : StaleTimer(p)
  \/ \E p \in Procs : ProcExit(p)
  \/ \E p \in Procs : ChildExit(p)
  \/ \E p \in Procs : Close(p)
  \/ \E p \in Procs : PollBegin(p)
  \/ \E p \in Procs : PollEnd(p)

PortSpec == PortInit /\ [][PortNext]_vars

\* LogSpec follows the log buffer of one server while its process writes to
\* stdout and stderr.
LogNext == \E len \in MessageLengths : AppendLog(1, len)

\* One server, loaded from a dynamic configuration without a port.
OneServerInit == PortInit /\ dynamic.port = NoPort

LogSpec == OneServerInit /\ [][LogNext]_vars

\* GuardSpec follows the handlers of the main process: one server with a
\* configured port, possibly with a runtime record left by an earlier
\* session that names the pid of a foreign process.
GuardInit ==
  /\ manual = Empty
  /\ dynamic = [rootPath |-> 1, runCommand |-> "old", port |-> 3000]
  /\ servers = LoadedServers({1}, dynamic.runCommand, dynamic.port, manual)
  /\ processes = Empty
  /\ logs = {1}
  /\ monitors = {}
  /\ runtimes \in {Empty, Put(Empty, 1, ForeignPid)}
  /\ procs = [p \in Procs |-> Unborn]
  /\ tasks = [t \in Slots |-> Idle]
  /\ loops = [p \in Procs |-> NoLoop]
  /\ staleTimers = {}
  /\ samplers = [p \in Procs |-> NoSampler]
  /\ buffer = NoBuffer
  /\ selection = NoSelection
  /\ guard = NoGuard
  /\ foreign \in [alive : BOOLEAN, startTime : StartTimes, cwd : {"under", "outside"},
                  listens : BOOLEAN]
  /\ issued = 0
  /\ last = Silent

GuardNext ==
  \/ \E op \in {"start", "restart"}, id \in DOMAIN servers : GuardBegin(op, id)
  \/ \E report \in ReportsOf(guard.pid) : GuardVerify(report)
  \/ \E response \in {"Terminate", "Continue", "Cancel"} : GuardAnswer(response)
  \/ GuardTerminated
  \/ \E holder \in Holders \cup {NoPid, UnknownPid} : GuardResolve(holder)
  \/ \E confirmed \in BOOLEAN : GuardPortAnswer(confirmed)
  \/ \E outcome \in {"free", "error", "timeout"} : GuardPortWait(outcome)
  \/ GuardAdmit
  \/ ForeignExit
  \/ \E t \in Slots, p \in Procs : StopPoll(t, p)
  \/ \E t \in Slots, p \in Procs : KillTimer(t, p)
  \/ \E p \in Procs : StaleTimer(p)
  \/ \E t \in Slots : RestartResume(t)
  \/ \E p \in Procs : ProcExit(p)
  \/ \E p \in Procs : ChildExit(p)
  \/ \E p \in Procs : Close(p)

GuardSpec == GuardInit /\ [][GuardNext]_vars

\* The handlers with a second server: server 1 is the dynamic one, with a
\* runtime record of an earlier session whose process is alive and listens,
\* server 2 is a manual one.
PairInit ==
  /\ manual = Put(Empty, 2, ManualEntry("old", DefaultPort))
  /\ dynamic = [rootPath |-> 1, runCommand |-> "old", port |-> 3000]
  /\ servers = LoadedServers({1}, dynamic.runCommand, dynamic.port, manual)
  /\ processes = Empty
  /\ logs = {1, 2}
  /\ monitors = {}
  /\ runtimes = Put(Empty, 1, ForeignPid)
  /\ procs = [p \in Procs |-> Unborn]
  /\ tasks = [t \in Slots |-> Idle]
  /\ loops = [p \in Procs |-> NoLoop]
  /\ staleTimers = {}
  /\ samplers = [p \in Procs |-> NoSampler]
  /\ buffer = NoBuffer
  /\ selection = NoSelection
  /\ guard = NoGuard
  /\ foreign \in [alive : {TRUE}, startTime : {0}, cwd : {"under", "outside"},
                  listens : {TRUE}]
  /\ issued = 0
  /\ last = Silent

PairSpec == PairInit /\ [][GuardNext]_vars

\* ---------------------------------------------------------------- candidate selection
MaxLen == 3         \* the longest list of candidates

\* The candidates a list can hold: two that tie (3000 and 4000), two with
\* the same port and different scores, a Nest process, a dev server on a
\* port out of the usual range, a debugger port.
CandidatePool ==
  { [port |-> 3000, pid |-> 1, isRoot |-> TRUE,  command |-> "node",    commandLine |-> "plain"],
    [port |-> 4000, pid |-> 1, isRoot |-> TRUE,  command |-> "node",    commandLine |-> "plain"],
    [port |-> 3000, pid |-> 3, isRoot |-> FALSE, command |-> "nodemon", commandLine |-> "vite"],
    [port |-> 5000, pid |-> 3, isRoot |-> FALSE, command |-> "node",    commandLine |-> "nest"],
    [port |-> 2000, pid |-> 3, isRoot |-> FALSE, command |-> "nodemon", commandLine |-> "vite"],
    [port |-> 9229, pid |-> 1, isRoot |-> TRUE,  command |-> "node",    commandLine |-> "plain"] }

\* The configured ports: none, the port of a good and of a bad candidate,
\* one that is out of range.
ExpectedPorts == {NoPort, 2000, 3000, 70000}

\* The list with its entries at i and i + 1 exchanged.
Swapped(candidates, i) ==
  [k \in DOMAIN candidates |->
     IF k = i THEN candidates[i + 1]
     ELSE IF k = i + 1 THEN candidates[i]
     ELSE candidates[k]]

\* The first call of selectBestPortCandidate with the arguments.
Select ==
  /\ selection.pc = "input"
  /\ \E best \in {selectBestPortCandidate(selection.candidates, selection.expectedPort,
                                           selection.isNestContext)} :
       selection' = [selection EXCEPT !.pc = "selected", !.best = best,
                                      !.first = best.port]
  /\ last' = Silent
  /\ Internal
  /\ UNCHANGED <<servers, processes, logs, monitors, runtimes, manual, dynamic, procs,
                 tasks, loops, staleTimers, samplers, buffer, guard, foreign>>

\* A further call with the same candidates, two neighbours exchanged.
Reselect(i) ==
  /\ selection.pc = "selected"
  /\ i \in 1..(Len(selection.candidates) - 1)
  /\ \E candidates \in {Swapped(selection.candidates, i)} :
       selection' = [selection EXCEPT
                       !.candidates = candidates,
                       !.best = selectBestPortCandidate(candidates, selection.expectedPort,
                                                        selection.isNestContext)]
  /\ last' = Silent
  /\ Internal
  /\ UNCHANGED <<servers, processes, logs, monitors, runtimes, manual, dynamic, procs,
                 tasks, loops, staleTimers, samplers, buffer, guard, foreign>>

SelectInit ==
  /\ manual = Empty
  /\ dynamic = NoDynamic
  /\ servers = Empty
  /\ processes = Empty
  /\ logs = {}
  /\ monitors = {}
  /\ runtimes = Empty
  /\ procs = [p \in Procs |-> Unborn]
  /\ tasks = [t \in Slots |-> Idle]
  /\ loops = [p \in Procs |-> NoLoop]
  /\ staleTimers = {}
  /\ samplers = [p \in Procs |-> NoSampler]
  /\ buffer = NoBuffer
  /\ guard = NoGuard
  /\ foreign = NoForeign
  /\ \E n \in 0..MaxLen :
       selection \in [pc : {"input"}, candidates : [1..n -> CandidatePool],
                      expectedPort : ExpectedPorts, isNestContext : BOOLEAN,
                      best : {NoCandidate}, first : {NoPort}]
  /\ issued = 0
  /\ last = Silent

SelectNext ==
  \/ Select
  \/ \E i \in 1..(MaxLen - 1) : Reselect(i)

SelectSpec == SelectInit /\ [][SelectNext]_vars

\* MonitorSpec follows the sampler: one server is started, stopped and
\* started again while the callbacks of its samplers wait for ps-list.
MonitorNext ==
  \/ \E id \in DOMAIN servers : Start(id)
  \/ \E id \in DOMAIN processes : Stop(id)
  \/ \E t \in Slots, p \in Procs : StopPoll(t, p)
  \/ \E t \in Slots, p \in Procs : KillTimer(t, p)
  \/ \E p \in Procs : StaleTimer(p)
  \/ \E p \in Procs : ProcExit(p)
  \/ \E p \in Procs : ChildExit(p)
  \/ \E p \in Procs : Close(p)
  \/ \E p \in Procs : SampleBegin(p)
  \/ \E p \in Procs, failed \in BOOLEAN : \E rows \in RelatedRows(p) :
       SampleEnd(p, failed, rows)

MonitorSpec == OneServerInit /\ [][MonitorNext]_vars

C2_OneLiveSubtreePerServer == \A id \in Ids : Cardinality(LiveProcsOf(id)) <= 1

\* The run p is the one a stopServer call that has returned success was about.
StopReturnedSuccess(p) ==
  /\ last.proc = p
  /\ \/ last.op = "stop" /\ last.ret /\ last.ok
     \/ last.op = "timer"
\* No 5s timer of a stopServer call on run p is still armed.
GraceElapsed(p) == p \notin staleTimers /\ \A t \in Slots : p \notin tasks[t].stops

\* The step sent the forceful kill to run p and the OS refused it.
KillRefused(p) == <<"SIGKILL", p>> \in last.sigs /\ GroupAlive(p)

\* C3: once stop(id) has returned success and the 5s grace timer of the call
\* has fired, no member of the process group of the stopped run is alive
\* (a forceful kill that the OS refused is left to C9).
C3_StopLeavesNoSurvivor ==
  \A p \in Procs :
    (StopReturnedSuccess(p) /\ GraceElapsed(p) /\ ~KillRefused(p)) => ~GroupAlive(p)

\* C4: when start, stop or restart returns a failure for a known server, the
\* status of the server is not left at starting or stopping.
C4_FailureLeavesSettledStatus ==
  (last.ret /\ ~last.ok /\ last.op \in {"start", "stop", "restart"}
     /\ last.id \in DOMAIN servers)
    => servers[last.id].status \notin {"starting", "stopping"}

\* C5: a server whose status is stopping (or starting) eventually leaves that
\* status, whether or not the OS ever delivers the exit of its process, given
\* that the health sweep and the timers of the supervisor keep firing.
C5_TransitionalStatusEnds ==
  \A id \in Ids :
    (id \in DOMAIN servers /\ servers[id].status \in {"starting", "stopping"})
      ~> (id \notin DOMAIN servers \/ servers[id].status \notin {"starting", "stopping"})

\* C6: after the 'close' event of a run of server id with exit code c, the
\* status is stopped if c is 0 and error otherwise, with the exit recorded as
\* the error exactly when c is not 0; pid, cpu and memory are cleared, no
\* process is tracked for id, its sampler is cancelled and its persisted
\* runtime record is gone.
C6_ExitSettlesServer ==
  last.op = "close" =>
    /\ last.id \notin DOMAIN processes
    /\ last.id \notin monitors
    /\ last.id \notin DOMAIN runtimes
    /\ last.id \in DOMAIN servers =>
         /\ servers[last.id].status = (IF last.ok THEN "stopped" ELSE "error")
         /\ servers[last.id].error = (IF last.ok THEN "none" ELSE "exit")
         /\ servers[last.id].pid = NoPid
         /\ servers[last.id].cpu = "unset"
         /\ servers[last.id].memory = "unset"
         /\ last.events = <<<<last.id, servers[last.id].status>>>>

\* a run no stop was waiting for has exited with a nonzero code and its
\* 'close' event has been handled
C6_Witness ==
  /\ last.op = "close" /\ ~last.ok
  /\ last.id \in DOMAIN servers
  /\ servers[last.id].status = "error"
  /\ GraceElapsed(last.proc)

\* C7: when start(id) returns success the status of id is running, the
\* spawned process is the one tracked for id, the persisted runtime record of
\* id names it, and an event reporting running was emitted.
C7_StartSuccessMeansRunning ==
  (last.op = "start" /\ last.ret /\ last.ok) =>
    /\ servers[last.id].status = "running"
    /\ last.id \in DOMAIN processes /\ processes[last.id] = last.proc
    /\ last.id \in DOMAIN runtimes /\ runtimes[last.id] = last.proc
    /\ \E k \in DOMAIN last.events : last.events[k] = <<last.id, "running">>

\* C8: a start whose process the OS refused to create returns a failure.
C8_RefusedSpawnFails ==
  (last.op = "start" /\ last.ret /\ last.proc # NoPid
     /\ procs[last.proc].code = "errno")
    => ~last.ok

\* C9: a stop(id) that returns when its 5s timer has sent the forceful kill
\* and the tracked process is still alive returns a failure.
C9_SurvivedKillFails ==
  (last.op = "stop" /\ last.ret /\ last.proc # NoPid
     /\ <<"SIGKILL", last.proc>> \in last.sigs
     /\ procs[last.proc].root = "run")
    => ~last.ok

LostProcess(id) ==
  /\ id \in DOMAIN servers /\ servers[id].status = "running"
  /\ id \in DOMAIN processes
  /\ procs[processes[id]].root = "dead"

\* C12: when the process tracked for a running server has disappeared and
\* its exit is not reported, a health sweep moves the server out of running
\* (to error, untracked), given that the sweeps keep coming.
C12_LostProcessDetected ==
  \A id \in Ids :
    LostProcess(id) ~> (id \notin DOMAIN servers \/ servers[id].status # "running")

\* An update of the running server id is under way.
Updating(id) == \E t \in Slots : tasks[t].op = "update" /\ tasks[t].id = id
\* The server id runs a process spawned from the rewritten definition.
RunningNew(id) ==
  /\ id \in DOMAIN servers /\ servers[id].status = "running"
  /\ servers[id].command = "new"
  /\ id \in DOMAIN processes
  /\ procs[processes[id]].command = "new" /\ procs[processes[id]].root = "run"
\* The OS has just refused the process of the restart of an update of id.
RestartRefused(id) ==
  /\ last.op = "updateStart" /\ last.id = id
  /\ \/ last.proc = NoPid /\ last.events # NoEvents
     \/ last.proc # NoPid /\ procs[last.proc].root = "dead"

\* C13: an update of a running server leads to the server running a process
\* of the rewritten definition (unless the server is deleted meanwhile or the
\* OS refuses the new process).
C13_UpdateRestartsRunning ==
  \A id \in Ids :
    Updating(id) ~> (id \notin DOMAIN servers \/ RunningNew(id) \/ RestartRefused(id))

\* C14: when deleteServer has returned success for id, the id has no server
\* record, no log buffer, no sampler and no persisted runtime record, and no
\* process of it is tracked or alive.
C14_DeleteLeavesNothing ==
  (last.op = "delete" /\ last.ret /\ last.ok) =>
    /\ last.id \notin DOMAIN servers
    /\ last.id \notin logs
    /\ last.id \notin monitors
    /\ last.id \notin DOMAIN runtimes
    /\ last.id \notin DOMAIN processes
    /\ \A p \in Procs : procs[p].sid = last.id => ~GroupAlive(p)

\* C15: when clearAllServers has returned success there is no server record,
\* no tracked process and no persisted runtime record.
C15_ClearAllLeavesNothing ==
  (last.op = "clearAll" /\ last.ret /\ last.ok) =>
    /\ servers = Empty
    /\ processes = Empty
    /\ runtimes = Empty

\* A server whose status is running has a tracked process handle: the state
\* that the pid fallback of stopAll (stopOrphanedServerByPid) is written for
\* does not occur.
RunningIsTracked ==
  \A id \in DOMAIN servers : servers[id].status = "running" => id \in DOMAIN processes

\* The run p is the tracked run of the server it was started for.
TrackedRun(p) ==
  procs[p].sid \in DOMAIN processes /\ processes[procs[p].sid] = p

\* C11: a loop of port discovery polls, and writes pid or actualPort into
\* the server record, only while its run is the tracked run of the server:
\* once the run is stopped or has exited (its handle untracked) no poll of
\* its loop starts or writes any more.
C11_LoopEndsWithItsRun ==
  (last.op \in {"poll", "pollSync"}) => TrackedRun(last.proc)

\* A poll of port discovery has just committed a port as actualPort.
Committed == last.op = "pollSync" /\ "actualPort" \in last.wrote

\* C18: no server record ever holds a port of the excluded debugger set
\* {9229, 9230, 9231, 9239} as actualPort, whatever lsof reports and
\* whatever port is configured.
C18_NoDebuggerPortCommitted ==
  \A id \in DOMAIN servers : servers[id].actualPort \notin {9229, 9230, 9231, 9239}
\* A poll that was reported a debugger port has committed a port.
C18_Witness == Committed /\ last.found = {"ignored"}

\* The port the last poll committed, the port configured for its server, and
\* the number of consecutive counted polls of the loop that selected the
\* port the poll selected.
CommittedPort == servers[last.id].actualPort
ConfiguredPort == normalizePortValue(servers[last.id].port)
Streak == loops[last.proc].consecutiveSamePort

CommitStep(p) ==
  /\ last'.op = "pollSync" /\ last'.proc = p /\ "actualPort" \in last'.wrote
  /\ loops'[p] # loops[p]
\* The loop of run p has committed a port in 3000..4999 and no other since.
HttpPortCommitted(p) ==
  loops[p].lastCommittedPort >= 3000 /\ loops[p].lastCommittedPort < 5000

OnlyPortFound(p, q) ==
  /\ procs[p].sid \in DOMAIN servers
  /\ normalizePortValue(servers[procs[p].sid].port) = NoPort
  /\ q # NoPort /\ loops[p].only = q
\* The server of run p has q as actualPort and its loop has committed no
\* other port.
OnlyPortCommitted(p, q) ==
  /\ servers[procs[p].sid].actualPort = q
  /\ loops[p].lastCommittedPort = q

Spawned ==
  /\ last.op \in {"start", "restart", "updateStart"}
  /\ last.proc # NoPid /\ last.id \in DOMAIN servers

\* The last step stored a definition whose form left the port empty.
StoredWithoutPort ==
  last.op \in {"addManual", "update"} /\ last.ret /\ last.ok

\* C28: a definition added or updated without a port has no configured port,
\* and a spawned process gets PORT in its environment exactly when its
\* server has a configured port.
C28_PortInjectedOnlyIfConfigured ==
  /\ StoredWithoutPort => servers[last.id].port = NoPort
  /\ Spawned => ("PORT" \in last.env <=> servers[last.id].port # NoPort)

\* The server-status-changed events of id among events, in their order.
EventsFor(events, id) == SelectSeq(events, LAMBDA e : e[1] = id)

\* C29: a step that changes the status of a server record emits events for
\* it, and the last event a step emits for a server carries the status the
\* record has after the step: the latest event of an id tells its status.
C29_LatestEventTellsStatus ==
  [][\A id \in DOMAIN servers \cap DOMAIN servers' :
       IF EventsFor(last'.events, id) # <<>>
       THEN EventsFor(last'.events, id)[Len(EventsFor(last'.events, id))][2]
              = servers'[id].status
       ELSE servers'[id].status = servers[id].status]_vars

C21_ReadingsInRange ==
  \A id \in DOMAIN servers :
    /\ servers[id].cpu \in {"unset", "zero", "value"}
    /\ servers[id].memory \in {"unset", "zero", "value"}
\* The fifth failure in a row has just stopped the sampler of a running server.
C21_Witness ==
  /\ last.op = "sampleStop" /\ samplers[last.proc].failedInARow = maxErrors
  /\ last.id \in DOMAIN servers /\ servers[last.id].status = "running"
  /\ servers[last.id].cpu = "zero" /\ servers[last.id].memory = "zero"

\* C22: a failed sample stops the sampler of its run exactly when it is the
\* fifth failure in a row of that run, a sample that completes without
\* failing, with or without finding the pid, starting the count again.
C22_StopsAtFiveInARow ==
  last.op \in {"sampleStop", "sampleFail"} =>
    (last.op = "sampleStop" <=> samplers[last.proc].failedInARow = maxErrors)

\* The sampler of run p has stopped itself and p is still the tracked run of
\* its server.
DisabledInRun(p) ==
  /\ samplers[p].disabled
  /\ procs[p].sid \in DOMAIN servers /\ procs[p].sid \in DOMAIN processes
  /\ processes[procs[p].sid] = p

\* C23: once the sampler of a run has stopped itself the readings are zero
\* as long as the run is tracked; the step that stops it does not cancel the
\* interval of another run and leaves the status of the server as it was.
C23_DisabledSamplerStaysSilent ==
  [][/\ \A p \in Procs :
          DisabledInRun(p)' => /\ servers'[procs[p].sid].cpu = "zero"
                               /\ servers'[procs[p].sid].memory = "zero"
     /\ last'.op = "sampleStop" /\ last'.id \in DOMAIN servers =>
          /\ last'.id \in monitors => IntervalRun(last'.id) = last'.proc
          /\ servers'[last'.id].status = servers[last'.id].status]_vars


\* ---------------------------------------------------------------- claims on the reconciler
\* The reconciler has verified the pid of a record and told the time its
\* process started to be more than the tolerance away from startedAt.
FarStartReported ==
  \E procStart \in guard.report.startTime :
    procStart - startTolerance > 0 \/ procStart + startTolerance < 0

\* C24: when the runtime record names a pid that is alive and ps reports a
\* start time more than 2 minutes away from the recorded one, the
\* reconciler deletes the record, asks nothing and signals nothing: it is
\* never found waiting for an answer or for a termination, and the step
\* that took the report sent no signal and left no record.
C24_FarStartTimeDiscards ==
  FarStartReported =>
    /\ guard.pc \notin {"dialog", "terminate"}
    /\ last.op \notin {"staleAsk", "staleTerminate", "staleTerminated"}
    /\ last.op = "staleDiscard" =>
         /\ last.sigs = NoSignals
         /\ last.id \notin DOMAIN runtimes
         /\ guard.pc = "resolve"

C24_Witness ==
  /\ last.op = "staleDiscard"
  /\ FarStartReported
  /\ guard.report.cwd = "under"
  /\ last.proc = ForeignPid
  /\ foreign.alive


\* The report the reconciler acts on in a step: the one it takes in the
\* step, or the one it took before.
ReportActedOn == IF guard.pc = "verify" THEN guard'.report ELSE guard.report

\* A step of the reconciler that sends a signal.
ReconcilerSignals ==
  /\ guard.pc \in {"verify", "dialog", "terminate"}
  /\ guard' # guard
  /\ last'.sigs # NoSignals

\* The caller gives an answer to the reconciler.
Answers(response) ==
  guard.pc = "dialog" /\ guard' # guard /\ last'.found = {response}

\* Who made the reconciler terminate: the caller, or the restart path.
TerminationChosen ==
  \/ guard.op = "restart"
  \/ Answers("Terminate")
  \/ guard.pc = "terminate"

\* Cancel: the start fails, nothing is spawned or signalled, the record stays.
CancelKeepsAll ==
  Answers("Cancel") =>
    /\ last'.ret /\ ~last'.ok /\ last'.sigs = NoSignals
    /\ guard'.pc = "idle"
    /\ procs' = procs /\ processes' = processes /\ foreign' = foreign
    /\ runtimes' = runtimes

\* Continue: no signal is sent and the reconciler is over.
ContinueSignalsNothing ==
  Answers("Continue") =>
    /\ last'.sigs = NoSignals
    /\ procs' = procs /\ foreign' = foreign
    /\ guard'.pc = "resolve"

\* ps told a start time within the tolerance, and lsof a cwd under the path.
ChecksPassed(report) ==
  /\ \E procStart \in report.startTime :
       procStart - startTolerance <= 0 /\ procStart + startTolerance >= 0
  /\ report.cwd = "under"

\* ps told no start time beyond the tolerance, and lsof no cwd outside the
\* path: each of them told what passes, or told nothing.
ChecksNotFailed(report) ==
  /\ \A procStart \in report.startTime :
       procStart - startTolerance <= 0 /\ procStart + startTolerance >= 0
  /\ report.cwd # "outside"

\* C25: the reconciler signals the recorded pid only if the pid
\* was found alive, the start time and the working directory were both
\* reported and both passed, and termination was chosen by the caller or by
\* the restart path; a cancel fails the start and keeps everything; a
\* continue signals nothing.
C25_SignalsOnlyVerifiedLeftover ==
  [][/\ ReconcilerSignals =>
          /\ guard.pid # NoPid
          /\ \A sg \in last'.sigs : sg[2] = guard.pid
          /\ ChecksPassed(ReportActedOn)
          /\ TerminationChosen
     /\ CancelKeepsAll
     /\ ContinueSignalsNothing]_vars

\* What the reconciler keeps of C25, with a check counted as passed unless
\* its report is there and fails: the reconciler signals the recorded pid only
\* if the pid was found alive, no start time beyond the tolerance and no
\* working directory outside the path was reported, and termination was
\* chosen by the caller or by the restart path; a cancel fails the start
\* and keeps everything; a continue signals nothing.
C25_SignalsOnlyUnrefutedLeftover ==
  [][/\ ReconcilerSignals =>
          /\ guard.pid # NoPid
          /\ \A sg \in last'.sigs : sg[2] = guard.pid
          /\ ChecksNotFailed(ReportActedOn)
          /\ TerminationChosen
     /\ CancelKeepsAll
     /\ ContinueSignalsNothing]_vars

\* The caller has chosen terminate for a live foreign process whose start
\* time and working directory were reported and passed.
VerifiedLeftoverTerminated ==
  /\ last.op = "staleTerminate"
  /\ last.found = {"Terminate"}
  /\ last.proc = ForeignPid
  /\ ChecksPassed(guard.report)
  /\ guard.pc = "terminate"


\* ---------------------------------------------------------------- claims on the port-conflict resolver
\* A step of confirmAndFreePort.
ResolverStep ==
  /\ guard.pc \in {"resolve", "portDialog", "portWait"}
  /\ ~(guard.pc = "resolve" /\ guard.ports = <<>>)
  /\ guard' # guard

\* The handler returns a failure in this step and has spawned nothing.
FailsWithoutSpawn ==
  /\ last'.ret /\ ~last'.ok /\ last'.op = guard.op /\ last'.id = guard.id
  /\ guard'.pc = "idle"
  /\ procs' = procs /\ processes' = processes /\ servers' = servers

OwnTrackedRun(id) ==
  IF id \in DOMAIN processes THEN {processes[id]} ELSE {}

\* C27: a process of the server's own tracked run is never taken for a
\* foreign holder of the server's port: the resolver neither names it as
\* the holder of the port nor signals it.
C27_OwnRunIsNoConflict ==
  [][ResolverStep =>
       /\ last'.op = "portConflict" => last'.proc \notin OwnTrackedRun(guard.id)
       /\ \A sg \in last'.sigs : sg[2] \notin OwnTrackedRun(guard.id)]_vars

\* ---------------------------------------------------------------- claims on exits
\* The 'close' event of run p is delivered in this step, for a process that
\* a signal of the supervisor terminated while stopServer had its server
\* in 'stopping'.
ClosesStopped(p) ==
  /\ procs[p].root = "dead" /\ procs[p].code = "signal"
  /\ ~procs[p].notified /\ procs'[p].notified
  /\ procs[p].sid \in DOMAIN servers
  /\ servers[procs[p].sid].status = "stopping"
  /\ procs[p].sid \in DOMAIN processes /\ processes[procs[p].sid] = p

\* C31: once a stop of the supervisor has terminated the process by SIGTERM
\* or SIGKILL, the server is stopped without an error, with no process
\* tracked and no runtime record.
C31_StoppedRunIsNoError ==
  [][\A p \in Procs :
       ClosesStopped(p) =>
         /\ servers'[procs[p].sid].status = "stopped"
         /\ servers'[procs[p].sid].error = "none"
         /\ procs[p].sid \notin DOMAIN processes'
         /\ procs[p].sid \notin DOMAIN runtimes']_vars

\* The 'close' event of run p is delivered in this step while a later run q
\* of the same server is the tracked one.
ClosesEarlier(p, q) ==
  /\ ~procs[p].notified /\ procs'[p].notified
  /\ q # p
  /\ procs[p].sid \in DOMAIN processes /\ processes[procs[p].sid] = q
  /\ procs[q].sid = procs[p].sid
  /\ procs[p].sid \in DOMAIN servers

\* C32: the exit notification of an earlier process of a server leaves a
\* later process of the same server tracked, and leaves the status, the pid
\* and the runtime record of that later run as they are.
C32_EarlierExitSparesLaterRun ==
  [][\A p, q \in Procs :
       ClosesEarlier(p, q) =>
         /\ procs[p].sid \in DOMAIN processes' /\ processes'[procs[p].sid] = q
         /\ servers'[procs[p].sid].status = servers[procs[p].sid].status
         /\ servers'[procs[p].sid].pid = servers[procs[p].sid].pid
         /\ (procs[p].sid \in DOMAIN runtimes) = (procs[p].sid \in DOMAIN runtimes')]_vars

\* C33: the reconciler never signals the process the manager tracks for the
\* server in this session, whatever the runtime record says.
C33_ReconcilerSparesTrackedRun ==
  [][ReconcilerSignals =>
       \A sg \in last'.sigs : sg[2] \notin OwnTrackedRun(guard.id)]_vars

\* ---------------------------------------------------------------- claims on the state map
\* C34: a server with status running has a tracked process, and a server
\* with status stopped or error has none.
C34_StatusAgreesWithTracking ==
  \A id \in DOMAIN servers :
    /\ servers[id].status = "running" => id \in DOMAIN processes
    /\ servers[id].status \in {"stopped", "error"} => id \notin DOMAIN processes

\* ---------------------------------------------------------------- claims on the streak
\* The poll of run p that ends in this step commits a port that is not the
\* configured one.
CommitsByStreak(p) ==
  /\ loops[p].pc = "await" /\ loops'[p].pc # "await"
  /\ procs[p].sid \in DOMAIN servers
  /\ servers'[procs[p].sid].actualPort # servers[procs[p].sid].actualPort
  /\ servers'[procs[p].sid].actualPort # normalizePortValue(servers[procs[p].sid].port)

\* C35: the count behind a commit is an unbroken streak: a port other than
\* the configured one is committed only by a poll that is at least the
\* second of back-to-back polls selecting that port, no poll without a
\* selection (no candidate, failure, warm-up) lying between them.  (The
\* claim asks as much of the configured port, and up to 6 polls.)
C35_CommitAfterBackToBackPolls ==
  [][\A p \in Procs :
       CommitsByStreak(p) =>
         /\ loops'[p].lastObservedPort = servers'[procs[p].sid].actualPort
         /\ loops'[p].backToBack >= 2]_vars

\* ---------------------------------------------------------------- claims on suspended operations
\* An operation resumes in this step from the await it was suspended on.
Resumes(t) == tasks[t].pc # "none" /\ tasks'[t] # tasks[t]

\* C36: an operation that was suspended on an awaited call does not write
\* back a server record that was deleted in the meantime: the step in which
\* it resumes adds no definition to the state map.  (The claim asks the
\* same of replaced records and of the events of the sampler.)
C36_ResumedOperationAddsNoServer ==
  [][\A t \in Slots : Resumes(t) => DOMAIN servers' \subseteq DOMAIN servers]_vars

\* ---------------------------------------------------------------- claims on restart
\* restartServer(id) is suspended on its stop or its settle delay, and the
\* process it stops has terminated on a signal of the supervisor.
RestartStoppedRun(id) ==
  /\ \E t \in Slots : tasks[t].op = "restart" /\ tasks[t].id = id
  /\ id \in DOMAIN processes
  /\ procs[processes[id]].root = "dead" /\ procs[processes[id]].code = "signal"

\* restartServer(id) has returned success and the server runs a process
\* spawned by it.
RestartedAnew(id) ==
  /\ last.op = "restart" /\ last.id = id /\ last.ret /\ last.ok
  /\ id \in DOMAIN servers /\ servers[id].status = "running"
  /\ id \in DOMAIN processes /\ processes[id] = last.proc

\* The OS has just refused the process restartServer(id) asked for.
RestartSpawnRefused(id) ==
  /\ last.op = "restart" /\ last.id = id
  /\ \/ last.proc = NoPid /\ last.events # NoEvents
     \/ last.proc # NoPid /\ procs[last.proc].root = "dead"

\* C37: a restart of a running server whose process terminates on SIGTERM
\* or SIGKILL leads to restartServer returning success with the server
\* running a newly spawned process (unless the server is deleted meanwhile
\* or the OS refuses the new process).
C37_RestartRunsAnew ==
  \A id \in Ids :
    RestartStoppedRun(id) ~>
      (id \notin DOMAIN servers \/ RestartedAnew(id) \/ RestartSpawnRefused(id))

\* ---------------------------------------------------------------- claims on the frame
\* The steps of one server: its commands and the callbacks of its run.
OwnOps ==
  {"start", "stop", "restart", "update", "updateStart", "delete", "close", "timer",
   "sample", "poll", "pollSync", "pollStop",
   "staleProbe", "staleDiscard", "staleAsk", "staleTerminate", "staleContinue",
   "staleTerminated", "portFree", "portConflict", "portConfirm", "portFreed"}

\* What the manager and the store hold of the server b.
StateOf(b) ==
  <<IF b \in DOMAIN servers THEN <<servers[b]>> ELSE <<>>,
    b \in logs,
    IF b \in DOMAIN processes THEN <<processes[b]>> ELSE <<>>,
    IF b \in DOMAIN runtimes THEN <<runtimes[b]>> ELSE <<>>>>

\* C38: a command for a server, and the callbacks of its run, leave the
\* record, the log buffer, the tracked process and the runtime record of
\* every other server as they are.
C38_OtherServersUntouched ==
  [][last'.op \in OwnOps =>
       \A b \in Ids \ {last'.id} : StateOf(b)' = StateOf(b)]_vars

\* A command for server 1 or a callback of its run has acted while server 2
\* runs a tracked process with a runtime record.
C38_Witness ==
  /\ last.op \in {"stop", "close", "delete", "update"} /\ last.id = 1
  /\ 2 \in DOMAIN servers /\ servers[2].status = "running"
  /\ 2 \in DOMAIN processes /\ 2 \in DOMAIN runtimes

\* ---------------------------------------------------------------- claims on the selection
\* The configured port of the call is valid and a candidate has it.
ExpectedIsCandidate ==
  /\ normalizePortValue(selection.expectedPort) # NoPort
  /\ \E i \in DOMAIN selection.candidates :
       selection.candidates[i].port = normalizePortValue(selection.expectedPort)

ScoreIn(c) ==
  Score(c, normalizePortValue(selection.expectedPort), selection.isNestContext)

\* C39: selectBestPortCandidate returns null exactly for the empty list and
\* a member of the list otherwise; a candidate on the valid configured port
\* if there is one, whatever the scores; otherwise a candidate of the least
\* score and, among those, of the lowest port; and the port it returns is
\* the same for every order of the list.
C39_SelectionIsOrderFree ==
  selection.pc = "selected" =>
    LET cs == selection.candidates
        best == selection.best
    IN /\ (best = NoCandidate) <=> (cs = <<>>)
       /\ cs # <<>> => \E i \in DOMAIN cs : cs[i] = best
       /\ ExpectedIsCandidate => best.port = normalizePortValue(selection.expectedPort)
       /\ cs # <<>> /\ ~ExpectedIsCandidate =>
            \A i \in DOMAIN cs :
              \/ ScoreIn(best) < ScoreIn(cs[i])
              \/ ScoreIn(best) = ScoreIn(cs[i]) /\ best.port <= cs[i].port
       /\ best.port = selection.first

\* The function was called again with the tying candidates (3000 and 4000)
\* in the other order, behind a worse one, and has returned the lower port.
C39_Witness ==
  /\ selection.pc = "selected"
  /\ Len(selection.candidates) = 3
  /\ selection.candidates[1].port = 2000
  /\ selection.candidates[2].port = 4000
  /\ selection.candidates[3].port = 3000
  /\ ScoreIn(selection.candidates[2]) = ScoreIn(selection.candidates[3])
  /\ ~ExpectedIsCandidate
  /\ selection.best.port = 3000
  /\ selection.first = 3000

====
